---- MODULE Spec2Model ----
(***************************************************************************)
(* Rules engine of esgea (src/src/lib.rs): the Game value (board, roster,  *)
(* observation ledger) and its operations, translated function by          *)
(* function.  Every operation is a pure operator from a Game value to the  *)
(* Game value it leaves behind; the actions apply one operation to the     *)
(* state variable `game`, remember the Game value before the call in `pre` *)
(* and the call and its result in `last`; `budget` is the number of calls  *)
(* the behaviour may still make.  The hosts of the engine keep their own   *)
(* state beside the game: `app` is the rest of the wasm DemoApp            *)
(* (src/wasm-app/src/lib.rs), `server` the state of the HTTP server        *)
(* (src/src/server.rs), `network` the app's peer and the messages on their *)
(* way (NetworkState); all are idle while the engine is called directly.   *)
(***************************************************************************)
EXTENDS Integers, Sequences, FiniteSets, TLC

VARIABLES game, pre, last, budget, app, server, network

vars == <<game, pre, last, budget, app, server, network>>

\* The state of the hosts.
hosts == <<app, server, network>>

(***************************************************************************)
(* Option<T>: None is the empty sequence, Some(x) the one-element one.     *)
(***************************************************************************)
None == <<>>

Some(x) == <<x>>

(***************************************************************************)
(* Intel = u32.  A balance is kept as the integer with the same 32 bits in *)
(* two's complement: n >= 0 stands for the balance n, and -k for the       *)
(* balance 2^32 - k, so that U32Max is -1.  Sums and differences of the    *)
(* integers are then the wrapping sums and differences of the balances;    *)
(* the order of the balances and the overflow of a sum are Below and       *)
(* Overflows.  The model holds balances near 0 and near 2^32 only.         *)
(***************************************************************************)
U32Max == 0 - 1

\* a < b as u32.
Below(a, b) ==
    \/ a >= 0 /\ b < 0
    \/ (a >= 0 <=> b >= 0) /\ a < b

\* a + b as u32 exceeds u32::MAX.
Overflows(a, b) ==
    \/ a < 0 /\ b < 0
    \/ (a < 0 \/ b < 0) /\ a + b >= 0

(***************************************************************************)
(* Bounds of the model.                                                    *)
(***************************************************************************)
\* Largest intel balance a player holds before a call.
MaxIntel == 2

\* Number of calls in a run of play (SpecRun).
MaxCalls == 3

\* Number of calls in the construction of a game (SpecBuild).
MaxSetup == 5

(***************************************************************************)
(* The board of the tests: Alpha (income 2) and Bravo (income 1) joined by *)
(* an edge, Charlie (income 1) with no edge; Alpha carries the pending     *)
(* bonus 3 of tests::start_turn_grants_income.                             *)
(***************************************************************************)
Alpha == 0

Bravo == 1

Charlie == 2

PendingBonus == 3

Locations == {Alpha, Bravo, Charlie}

PlayerIds == {0, 1, 2}

BaseIncome == (Alpha :> 2) @@ (Bravo :> 1) @@ (Charlie :> 1)

\* The names tests::setup gives them.
Name == (Alpha :> "Alpha") @@ (Bravo :> "Bravo") @@ (Charlie :> "Charlie")

(***************************************************************************)
(* IntelKind and its cost table.                                           *)
(***************************************************************************)
IntelKinds == {"HideSignals", "Reveal", "Invisible", "Prepare"}

\* The price list with the costs of Reveal and Invisible exchanged.
cost_reveal_for_invisible(which) ==
    CASE which = "HideSignals" -> 2
      [] which = "Reveal" -> 2
      [] which = "Invisible" -> 1
      [] which = "Prepare" -> 0

cost(which) ==
    CASE which = "HideSignals" -> 2
      [] which = "Reveal" -> 1
      [] which = "Invisible" -> 2
      [] which = "Prepare" -> 0

(***************************************************************************)
(* Observation variants.                                                   *)
(***************************************************************************)
Death(by, of) == [type |-> "Death", by |-> by, of |-> of]

Strike(by, at) == [type |-> "Strike", by |-> by, at |-> at]

WaitMove(by) == [type |-> "WaitMove", by |-> by]

Capture(by, at) == [type |-> "Capture", by |-> by, at |-> at]

Intel(by, kind) == [type |-> "Intel", by |-> by, kind |-> kind]

Reveal(who, at) == [type |-> "Reveal", who |-> who, at |-> at]

RevealFailure(who) == [type |-> "RevealFailure", who |-> who]

(***************************************************************************)
(* Event: the ledger.  private_observations is a map that holds an entry   *)
(* only for the players it was created for (spawn_player, note);           *)
(* Event::default() holds none.                                            *)
(***************************************************************************)
EventDefault == [private_observations |-> <<>>, public_observations |-> <<>>]

\* note that keeps only the latest observation of a queue.
EventNote_keeps_latest(ev, pid, obs) ==
    [ev EXCEPT !.private_observations =
        IF pid \in DOMAIN ev.private_observations
        THEN [ev.private_observations EXCEPT ![pid] = <<obs>>]
        ELSE (pid :> <<obs>>) @@ ev.private_observations]

EventNote(ev, pid, obs) ==
    [ev EXCEPT !.private_observations =
        IF pid \in DOMAIN ev.private_observations
        THEN [ev.private_observations EXCEPT ![pid] = Append(@, obs)]
        ELSE (pid :> <<obs>>) @@ ev.private_observations]

EventBroadcast(ev, obs) ==
    [ev EXCEPT !.public_observations = Append(@, obs)]

\* Game::note and Game::broadcast: the same on the game's event.
note(g, pid, obs) == [g EXCEPT !.event = EventNote(g.event, pid, obs)]

broadcast(g, obs) == [g EXCEPT !.event = EventBroadcast(g.event, obs)]

RECURSIVE NoteAll(_, _, _)
\* `for obs in obs { self.note(pid, obs) }`
NoteAll(g, pid, obss) ==
    IF obss = <<>> THEN g
    ELSE NoteAll(note(g, pid, Head(obss)), pid, Tail(obss))

\* A player's private queue as a reader sees it (`.get(&pid)...unwrap_or_default()`).
Private(g, pid) ==
    IF pid \in DOMAIN g.event.private_observations
    THEN g.event.private_observations[pid]
    ELSE <<>>

Public(g) == g.event.public_observations

(***************************************************************************)
(* Roster and board helpers.                                               *)
(***************************************************************************)
NumPlayers(g) == Cardinality(DOMAIN g.players)

\* The roster positions in iteration order, as a sequence.
RosterOrder(g) == [i \in 1..NumPlayers(g) |-> i - 1]

\* The board's edges are the graph's edge list: one pair <<a, b>> per
\* add_edge(a, b), in the order of the calls.
\* find_edge that only finds an edge in the direction it was added.
find_edge_directed(g, a, b) ==
    \E i \in 1..Len(g.cities.edges) : g.cities.edges[i] = <<a, b>>

\* UnGraph::find_edge(a, b).is_some(): the graph is undirected.
find_edge(g, a, b) ==
    \E i \in 1..Len(g.cities.edges) :
        g.cities.edges[i] = <<a, b>> \/ g.cities.edges[i] = <<b, a>>

\* Player::default() as spawn_player completes it.
SpawnedPlayer(id, start_at) ==
    [alive |-> TRUE, intel |-> 0, hidden_signals |-> FALSE,
     visible_violence |-> FALSE, active_scan |-> FALSE, concealed |-> FALSE,
     invisible |-> FALSE, id |-> id, location |-> start_at]

\* add_location's node weight.
NewLocation(index, name, base_income) ==
    [pending_powerup |-> None, boost |-> FALSE, base_income |-> base_income,
     name |-> name, index |-> index, control |-> None]

(***************************************************************************)
(* Faulty variants of the operations below, one per property: each is the  *)
(* operation with one plausible slip, and the property it is named for     *)
(* must tell it from the operation.                                        *)
(***************************************************************************)
\* purchase that subtracts before it compares.
purchase_deducts_first(player, which) ==
    LET paid == [player EXCEPT !.intel =
                    IF ~Below(@, cost(which)) THEN @ - cost(which) ELSE 0]
    IN  IF Below(player.intel, cost(which))
        THEN [player |-> paid, res |-> "NotEnoughIntel"]
        ELSE [player |-> paid, res |-> "Ok"]

\* purchase without the balance check and without saturation.
purchase_unchecked(player, which) ==
    [player |-> [player EXCEPT !.intel = @ - cost(which)], res |-> "Ok"]

(***************************************************************************)
(* Player::purchase: the player after the call and the result.             *)
(***************************************************************************)
purchase(player, which) ==
    IF Below(player.intel, cost(which))
    THEN [player |-> player, res |-> "NotEnoughIntel"]
    ELSE [player |-> [player EXCEPT !.intel =
                         IF ~Below(@, cost(which)) THEN @ - cost(which) ELSE 0],
          res |-> "Ok"]

(***************************************************************************)
(* Game::try_move: the game after the call and whether the move completed. *)
(***************************************************************************)
\* The scan of try_move without the test of the invisible flag.
ScanReveals_ignores_invisible(g, pid, to) ==
    LET Seen(i) == to = g.players[i].location /\ g.players[i].id # pid
        seen == SelectSeq(RosterOrder(g), Seen)
    IN  [k \in 1..Len(seen) |->
            Reveal(g.players[seen[k]].id, g.players[seen[k]].location)]

\* The observations try_move collects for an actively scanning mover.
ScanReveals(g, pid, to) ==
    LET Seen(i) == /\ to = g.players[i].location
                   /\ g.players[i].id # pid
                   /\ ~g.players[i].invisible
        seen == SelectSeq(RosterOrder(g), Seen)
    IN  [k \in 1..Len(seen) |->
            Reveal(g.players[seen[k]].id, g.players[seen[k]].location)]

\* try_move that does not look for the edge.
try_move_anywhere(g, pid, to) ==
    LET g1 == [g EXCEPT !.players[pid].location = to]
    IN  [game |-> g1, moved |-> TRUE]

\* try_move that scans the destination whatever the mover's flag.
try_move_always_scans(g, pid, to) ==
    IF ~find_edge(g, g.players[pid].location, to)
    THEN [game |-> g, moved |-> FALSE]
    ELSE LET g1 == [g EXCEPT !.players[pid].location = to]
         IN  [game |-> NoteAll(g1, pid, ScanReveals(g1, pid, to)),
              moved |-> TRUE]

try_move(g, pid, to) ==
    IF ~find_edge(g, g.players[pid].location, to)
    THEN [game |-> g, moved |-> FALSE]
    ELSE LET g1 == [g EXCEPT !.players[pid].location = to]
             obs == IF g1.players[pid].active_scan
                    THEN ScanReveals(g1, pid, to)
                    ELSE <<>>
         IN  [game |-> NoteAll(g1, pid, obs), moved |-> TRUE]

(***************************************************************************)
(* Game::start_turn.                                                       *)
(***************************************************************************)
RECURSIVE SumIncome(_, _)
\* Sum of base_income over the locations in `locs`.
SumIncome(g, locs) ==
    IF locs = {} THEN 0
    ELSE LET c == CHOOSE x \in locs : TRUE
         IN  g.cities.nodes[c].base_income + SumIncome(g, locs \ {c})

Controlled(g, pid) ==
    {c \in DOMAIN g.cities.nodes : g.cities.nodes[c].control = Some(pid)}

unwrap_or(opt, default) == IF opt = None THEN default ELSE opt[1]

\* `p.intel += intel_income` where it does not panic: the wrapping sum.
AddIntel(intel, income) == intel + income

\* The income that counts the pending bonus only on a location pid controls.
intel_income_bonus_if_controlled(g, pid) ==
    LET cur_city == g.cities.nodes[g.players[pid].location]
    IN  SumIncome(g, Controlled(g, pid))
            + (IF cur_city.control = Some(pid)
               THEN unwrap_or(cur_city.pending_powerup, 0)
               ELSE 0)

intel_income(g, pid) ==
    SumIncome(g, Controlled(g, pid))
        + unwrap_or(g.cities.nodes[g.players[pid].location].pending_powerup, 0)

\* The test of start_turn's loop that passes over a concealed player.
TurnReveals_skips_concealed(g, pid, i) ==
    /\ g.players[i].id # pid
    /\ ~g.players[i].invisible
    /\ ~g.players[i].concealed
    /\ g.cities.nodes[g.players[pid].location].index = g.players[i].location

\* The test of start_turn's loop without the invisible flag.
TurnReveals_ignores_invisible(g, pid, i) ==
    /\ g.players[i].id # pid
    /\ g.cities.nodes[g.players[pid].location].index = g.players[i].location

\* Whether the loop of start_turn reveals the player at roster position i.
TurnReveals(g, pid, i) ==
    /\ g.players[i].id # pid
    /\ ~g.players[i].invisible
    /\ g.cities.nodes[g.players[pid].location].index = g.players[i].location

\* The loop body that lets the invisibility of every player expire.
StartTurnPlayer_expires_all(g, pid, i) ==
    LET p  == g.players[i]
        p1 == IF TurnReveals(g, pid, i) THEN [p EXCEPT !.concealed = FALSE] ELSE p
    IN  IF p.id = pid
        THEN [p1 EXCEPT !.intel = AddIntel(@, intel_income(g, pid)),
                        !.invisible = FALSE]
        ELSE [p1 EXCEPT !.invisible = FALSE]

\* The loop body that brings the player whose turn starts back to life.
StartTurnPlayer_revives(g, pid, i) ==
    LET p  == g.players[i]
        p1 == IF TurnReveals(g, pid, i) THEN [p EXCEPT !.concealed = FALSE] ELSE p
    IN  IF p.id = pid
        THEN [p1 EXCEPT !.intel = AddIntel(@, intel_income(g, pid)),
                        !.invisible = FALSE, !.alive = TRUE]
        ELSE p1

\* The loop body that lets hidden_signals expire as invisible does.
StartTurnPlayer_unhides(g, pid, i) ==
    LET p  == g.players[i]
        p1 == IF TurnReveals(g, pid, i) THEN [p EXCEPT !.concealed = FALSE] ELSE p
    IN  IF p.id = pid
        THEN [p1 EXCEPT !.intel = AddIntel(@, intel_income(g, pid)),
                        !.invisible = FALSE, !.hidden_signals = FALSE]
        ELSE p1

\* One pass of the loop body over the player at roster position i.
StartTurnPlayer(g, pid, i) ==
    LET p  == g.players[i]
        p1 == IF TurnReveals(g, pid, i) THEN [p EXCEPT !.concealed = FALSE] ELSE p
    IN  IF p.id = pid
        THEN [p1 EXCEPT !.intel = AddIntel(@, intel_income(g, pid)),
                        !.invisible = FALSE]
        ELSE p1

\* start_turn that collects the pending bonus it pays out.
start_turn_takes_bonus(g, pid) ==
    LET Hit(i) == TurnReveals(g, pid, i)
        seen == SelectSeq(RosterOrder(g), Hit)
        obs == [k \in 1..Len(seen) |->
                   Reveal(g.players[seen[k]].id, g.players[seen[k]].location)]
        g1 == [g EXCEPT !.players =
                  [i \in DOMAIN g.players |-> StartTurnPlayer(g, pid, i)],
                        !.cities.nodes[g.players[pid].location].pending_powerup =
                            None]
    IN  NoteAll(g1, pid, obs)

start_turn(g, pid) ==
    LET Hit(i) == TurnReveals(g, pid, i)
        seen == SelectSeq(RosterOrder(g), Hit)
        obs == [k \in 1..Len(seen) |->
                   Reveal(g.players[seen[k]].id, g.players[seen[k]].location)]
        g1 == [g EXCEPT !.players =
                  [i \in DOMAIN g.players |-> StartTurnPlayer(g, pid, i)]]
    IN  NoteAll(g1, pid, obs)

(***************************************************************************)
(* start_turn in a build with overflow checks (debug): `sum::<u32>()`,     *)
(* `+` and `+=` panic where the build without them (release) wraps.        *)
(***************************************************************************)
RECURSIVE SumOverflows(_, _, _)
\* `sum::<u32>()` over the nodes 0 .. n-1 overflows at one of its additions.
SumOverflows(g, pid, n) ==
    IF n = 0 THEN FALSE
    ELSE \/ SumOverflows(g, pid, n - 1)
         \/ /\ n - 1 \in Controlled(g, pid)
            /\ Overflows(SumIncome(g, {c \in Controlled(g, pid) : c < n - 1}),
                         g.cities.nodes[n - 1].base_income)

\* Computing intel_income overflows: in the sum or on adding the bonus.
IncomeOverflows(g, pid) ==
    \/ SumOverflows(g, pid, Cardinality(DOMAIN g.cities.nodes))
    \/ Overflows(SumIncome(g, Controlled(g, pid)),
                 unwrap_or(g.cities.nodes[g.players[pid].location].pending_powerup, 0))

\* start_turn(pid) panics in a build with overflow checks.
start_turn_panics(g, pid) ==
    \/ IncomeOverflows(g, pid)
    \/ Overflows(g.players[pid].intel, intel_income(g, pid))

\* The game the panic leaves: untouched if the income overflowed, else with
\* the loop stopped at `p.intel += intel_income`, the players before pid done.
start_turn_unwound(g, pid) ==
    IF IncomeOverflows(g, pid) THEN g
    ELSE LET Hit(i) == i < pid /\ TurnReveals(g, pid, i)
             seen == SelectSeq(RosterOrder(g), Hit)
             obs == [k \in 1..Len(seen) |->
                        Reveal(g.players[seen[k]].id, g.players[seen[k]].location)]
             g1 == [g EXCEPT !.players =
                       [i \in DOMAIN g.players |->
                           IF Hit(i) THEN [g.players[i] EXCEPT !.concealed = FALSE]
                           ELSE g.players[i]]]
         IN  NoteAll(g1, pid, obs)

(***************************************************************************)
(* Game::intel_reveal, strike, wait, capture, prepare.                     *)
(***************************************************************************)
\* intel_reveal that names the kind whatever the actor's flags.
intel_reveal_names_kind(g, pid, intel_kind) ==
    broadcast(g, Intel(Some(pid), Some(intel_kind)))

intel_reveal(g, pid, intel_kind) ==
    LET kind == IF g.players[pid].hidden_signals THEN None ELSE Some(intel_kind)
    IN  broadcast(g, Intel(Some(pid), kind))

\* The location rule of strike that forgets the players just killed.
StrikeAt_only_visible_violence(g, pid, pl) ==
    IF g.players[pl].visible_violence
    THEN Some(g.players[pid].location)
    ELSE None

\* The location a Strike observation for pl carries.
StrikeAt(g, pid, pl) ==
    IF g.players[pl].visible_violence \/ ~g.players[pl].alive
    THEN Some(g.players[pid].location)
    ELSE None

\* The loop body of strike without `if pl != pid`: the striker is hit too.
StrikeStep_hits_striker(g, pid, pl) ==
    LET g1 == IF g.players[pid].location = g.players[pl].location
              THEN note(note([g EXCEPT !.players[pl].alive = FALSE],
                             pid, Death(pid, pl)),
                        pl, Death(pid, pl))
              ELSE g
        at == IF g1.players[pl].visible_violence \/ ~g1.players[pl].alive
              THEN Some(g1.players[pid].location)
              ELSE None
    IN  note(g1, pl, Strike(Some(pid), at))

\* The body of strike's loop for roster position pl.
StrikeStep(g, pid, pl) ==
    IF pl = pid THEN g
    ELSE LET g1 == IF g.players[pid].location = g.players[pl].location
                   THEN note(note([g EXCEPT !.players[pl].alive = FALSE],
                                  pid, Death(pid, pl)),
                             pl, Death(pid, pl))
                   ELSE g
         IN  note(g1, pl, Strike(Some(pid), StrikeAt(g1, pid, pl)))

RECURSIVE StrikeFrom(_, _, _)
\* `for pl in pl..self.players.len()`
StrikeFrom(g, pid, pl) ==
    IF pl >= NumPlayers(g) THEN g
    ELSE StrikeFrom(StrikeStep(g, pid, pl), pid, pl + 1)

\* strike that only a living player can make.
strike_needs_life(g, pid) ==
    IF g.players[pid].alive THEN StrikeFrom(g, pid, 0) ELSE g

strike(g, pid) == StrikeFrom(g, pid, 0)

\* wait that pays the player who waits.
wait_earns(g, pid) ==
    [broadcast(g, WaitMove(Some(pid))) EXCEPT !.players[pid].intel = AddIntel(@, 1)]

\* wait that does not say who waits.
wait_unnamed(g, pid) == broadcast(g, WaitMove(None))

wait(g, pid) == broadcast(g, WaitMove(Some(pid)))

\* capture that takes only a location nobody controls.
capture_only_unclaimed(g, pid) ==
    LET at == g.players[pid].location
    IN  IF g.cities.nodes[at].control = None
        THEN broadcast([g EXCEPT !.cities.nodes[at].control = Some(pid)],
                       Capture(pid, at))
        ELSE g

capture(g, pid) ==
    LET at == g.players[pid].location
    IN  broadcast([g EXCEPT !.cities.nodes[at].control = Some(pid)],
                  Capture(pid, at))

prepare(g, pid) == intel_reveal(g, pid, "Prepare")

(***************************************************************************)
(* The purchase-gated actions: the game after the call and the result.     *)
(***************************************************************************)
\* hide_signals that makes the purchase before it looks at the flag.
hide_signals_pays_first(g, pid) ==
    LET bought == purchase(g.players[pid], "HideSignals")
        g1 == [g EXCEPT !.players[pid] = bought.player]
        g2 == intel_reveal(g1, pid, "HideSignals")
    IN  IF bought.res # "Ok"
        THEN [game |-> g1, res |-> bought.res]
        ELSE IF g.players[pid].hidden_signals
             THEN [game |-> g, res |-> "WouldNoop"]
             ELSE [game |-> [g2 EXCEPT !.players[pid].hidden_signals = TRUE],
                   res |-> "Ok"]

\* hide_signals that sets the flag before it announces the purchase.
hide_signals_hides_itself(g, pid) ==
    IF g.players[pid].hidden_signals
    THEN [game |-> g, res |-> "WouldNoop"]
    ELSE LET bought == purchase(g.players[pid], "HideSignals")
             g1 == [g EXCEPT !.players[pid] = bought.player]
             g2 == [g1 EXCEPT !.players[pid].hidden_signals = TRUE]
         IN  IF bought.res # "Ok"
             THEN [game |-> g1, res |-> bought.res]
             ELSE [game |-> intel_reveal(g2, pid, "HideSignals"), res |-> "Ok"]

hide_signals(g, pid) ==
    IF g.players[pid].hidden_signals
    THEN [game |-> g, res |-> "WouldNoop"]
    ELSE LET bought == purchase(g.players[pid], "HideSignals")
             g1 == [g EXCEPT !.players[pid] = bought.player]
             g2 == intel_reveal(g1, pid, "HideSignals")
         IN  IF bought.res # "Ok"
             THEN [game |-> g1, res |-> bought.res]
             ELSE [game |-> [g2 EXCEPT !.players[pid].hidden_signals = TRUE],
                   res |-> "Ok"]

invisible_action(g, pid) ==
    IF g.players[pid].invisible
    THEN [game |-> g, res |-> "WouldNoop"]
    ELSE LET bought == purchase(g.players[pid], "Invisible")
             g1 == [g EXCEPT !.players[pid] = bought.player]
             g2 == intel_reveal(g1, pid, "Invisible")
         IN  IF bought.res # "Ok"
             THEN [game |-> g1, res |-> bought.res]
             ELSE [game |-> [g2 EXCEPT !.players[pid].invisible = TRUE],
                   res |-> "Ok"]

\* The targeted reveal without the test of the invisible flag.
TargetedReveal_ignores_invisible(g, reveal) ==
    Reveal(reveal, g.players[reveal].location)

\* The targeted reveal that also gives way to the concealed flag.
TargetedReveal_honours_concealed(g, reveal) ==
    IF ~g.players[reveal].invisible /\ ~g.players[reveal].concealed
    THEN Reveal(reveal, g.players[reveal].location)
    ELSE RevealFailure(reveal)

\* The observation a Reveal aimed at one player gives the requester.
TargetedReveal(g, reveal) ==
    IF ~g.players[reveal].invisible
    THEN Reveal(reveal, g.players[reveal].location)
    ELSE RevealFailure(reveal)

\* The untargeted reveal that finds visible players wherever they are.
UntargetedReveals_anywhere(g, pid) ==
    LET Other(i) == g.players[i].id # pid
        others == SelectSeq(RosterOrder(g), Other)
    IN  [k \in 1..Len(others) |->
            LET r == g.players[others[k]]
            IN  IF ~r.invisible
                THEN Reveal(r.id, r.location)
                ELSE RevealFailure(r.id)]

\* The observations a Reveal without a target collects, in roster order.
UntargetedReveals(g, pid) ==
    LET Other(i) == g.players[i].id # pid
        others == SelectSeq(RosterOrder(g), Other)
    IN  [k \in 1..Len(others) |->
            LET r == g.players[others[k]]
            IN  IF ~r.invisible /\ r.location = g.players[pid].location
                THEN Reveal(r.id, r.location)
                ELSE RevealFailure(r.id)]

reveal_action(g, pid, reveal) ==
    LET bought == purchase(g.players[pid], "Reveal")
        g1 == [g EXCEPT !.players[pid] = bought.player]
        g2 == IF reveal # None
              THEN note(g1, pid, TargetedReveal(g1, reveal[1]))
              ELSE NoteAll(g1, pid, UntargetedReveals(g1, pid))
    IN  IF bought.res # "Ok"
        THEN [game |-> g1, res |-> bought.res]
        ELSE [game |-> intel_reveal(g2, pid, "Reveal"), res |-> "Ok"]

(***************************************************************************)
(* Action and Game::do_action.  An action is [kind, arg]: arg is Some(to)  *)
(* for Move, the optional target for Reveal and None otherwise.            *)
(***************************************************************************)
Act(kind, arg) == [kind |-> kind, arg |-> arg]

\* do_action that makes the player of the latest public move wait its turn.
do_action_takes_turns(g, pid, action) ==
    LET moves == Public(g)
        latest == moves[Len(moves)]
    IN  IF /\ Len(moves) > 0
           /\ latest.type \in {"WaitMove", "Intel"}
           /\ latest.by = Some(pid)
        THEN [game |-> g, res |-> "NotYourTurn"]
        ELSE CASE action.kind = "Strike" -> [game |-> strike(g, pid), res |-> "Ok"]
               [] action.kind = "Wait" -> [game |-> wait(g, pid), res |-> "Ok"]
               [] action.kind = "Capture" -> [game |-> capture(g, pid), res |-> "Ok"]
               [] action.kind = "HideSignals" -> hide_signals(g, pid)
               [] action.kind = "Invisible" -> invisible_action(g, pid)
               [] action.kind = "Prepare" -> [game |-> prepare(g, pid), res |-> "Ok"]
               [] action.kind = "Move" ->
                     LET moved == try_move(g, pid, action.arg[1])
                     IN  IF ~moved.moved
                         THEN [game |-> moved.game, res |-> "WouldNoop"]
                         ELSE [game |-> moved.game, res |-> "Ok"]
               [] action.kind = "Reveal" -> reveal_action(g, pid, action.arg)

do_action(g, pid, action) ==
    CASE action.kind = "Strike" -> [game |-> strike(g, pid), res |-> "Ok"]
      [] action.kind = "Wait" -> [game |-> wait(g, pid), res |-> "Ok"]
      [] action.kind = "Capture" -> [game |-> capture(g, pid), res |-> "Ok"]
      [] action.kind = "HideSignals" -> hide_signals(g, pid)
      [] action.kind = "Invisible" -> invisible_action(g, pid)
      [] action.kind = "Prepare" -> [game |-> prepare(g, pid), res |-> "Ok"]
      [] action.kind = "Move" ->
            LET moved == try_move(g, pid, action.arg[1])
            IN  IF ~moved.moved
                THEN [game |-> moved.game, res |-> "WouldNoop"]
                ELSE [game |-> moved.game, res |-> "Ok"]
      [] action.kind = "Reveal" -> reveal_action(g, pid, action.arg)

\* Game::reset_event.
reset_event(g) == [g EXCEPT !.event = EventDefault]

(***************************************************************************)
(* Construction: Game::new, add_location, connect_locations, spawn_player. *)
(* Locations and players are numbered from 0 in the order they were added. *)
(***************************************************************************)
GameNew ==
    [cities |-> [nodes |-> <<>>, edges |-> <<>>], players |-> <<>>,
     event |-> EventDefault]

\* The game after the call and the index returned.
add_location(g, name, base_income) ==
    LET index == Cardinality(DOMAIN g.cities.nodes)
    IN  [game |-> [g EXCEPT !.cities.nodes =
                      (index :> NewLocation(index, name, base_income)) @@ @],
         index |-> index]

\* connect_locations that looks for the edge in the direction given only.
connect_locations_directed(g, a, b) ==
    IF ~find_edge_directed(g, a, b)
    THEN [g EXCEPT !.cities.edges = Append(@, <<a, b>>)]
    ELSE g

connect_locations(g, a, b) ==
    IF ~find_edge(g, a, b)
    THEN [g EXCEPT !.cities.edges = Append(@, <<a, b>>)]
    ELSE g

\* spawn_player that hands the slot of a dead player to the newcomer.
spawn_player_reuses_dead_slot(g, start_at) ==
    LET dead == {i \in DOMAIN g.players : ~g.players[i].alive}
        id == IF dead = {} THEN NumPlayers(g)
              ELSE CHOOSE i \in dead : \A j \in dead : i <= j
    IN  [game |-> [g EXCEPT
                      !.players = (id :> SpawnedPlayer(id, start_at)) @@ @,
                      !.event.private_observations =
                          IF id \in DOMAIN @ THEN @ ELSE (id :> <<>>) @@ @],
         id |-> id]

\* The game after the call and the id returned.
spawn_player(g, start_at) ==
    LET id == NumPlayers(g)
    IN  [game |-> [g EXCEPT
                      !.players = (id :> SpawnedPlayer(id, start_at)) @@ @,
                      !.event.private_observations =
                          IF id \in DOMAIN @ THEN @ ELSE (id :> <<>>) @@ @],
         id |-> id]

(***************************************************************************)
(* Initial states.  Game's fields are public and the hosts install them    *)
(* directly (the tests, setup_demo_map, DemoApp::load_snapshot), so a call *)
(* may find any roster and any controllers.  The rosters are drawn from    *)
(* families that each vary the fields one group of operations reads; the   *)
(* ledger is as spawn_player left it (fields written after the spawn, as   *)
(* the tests and setup_demo_map do), as reset_event left it (a game in     *)
(* progress, or one load_snapshot installed), or holds the observations of *)
(* earlier calls of the cycle.                                             *)
(***************************************************************************)
Player(id, location, alive, intel, hs, vv, scan, conc, inv) ==
    [SpawnedPlayer(id, location) EXCEPT
        !.alive = alive, !.intel = intel, !.hidden_signals = hs,
        !.visible_violence = vv, !.active_scan = scan,
        !.concealed = conc, !.invisible = inv]

\* Where the players of the drawn rosters stand: on the two joined locations.
Starts == [PlayerIds -> {Alpha, Bravo}]

\* Strike's inputs: per player the location, alive and visible_violence.
CombatRosters ==
    {[p \in PlayerIds |->
        Player(p, at[p], alive[p], 0, FALSE, vv[p], FALSE, FALSE, inv)] :
     at \in Starts, alive \in [PlayerIds -> BOOLEAN],
     vv \in [PlayerIds -> BOOLEAN], inv \in BOOLEAN}

\* The purchases', reveals' and moves' inputs: per player the location and
\* invisible; the balance and the flags only the actor's copy of is read.
StealthRosters ==
    {[p \in PlayerIds |->
        Player(p, at[p], TRUE, intel, hs, FALSE, scan, conc, inv[p])] :
     at \in Starts, inv \in [PlayerIds -> BOOLEAN], intel \in 0..MaxIntel,
     hs \in BOOLEAN, scan \in BOOLEAN, conc \in BOOLEAN}

\* start_turn's and capture's inputs besides the roster: the controllers.
EconomyRosters ==
    {[p \in PlayerIds |->
        Player(p, at[p], TRUE, intel, FALSE, FALSE, FALSE, conc, FALSE)] :
     at \in Starts, intel \in 0..MaxIntel, conc \in BOOLEAN}

Controls ==
    {[c \in Locations |-> None],
     (Alpha :> Some(0)) @@ (Bravo :> Some(0)) @@ (Charlie :> Some(1)),
     (Alpha :> Some(1)) @@ (Bravo :> None) @@ (Charlie :> Some(2)),
     [c \in Locations |-> Some(2)]}

Board(control) ==
    [nodes |-> [c \in Locations |->
                   [NewLocation(c, Name[c], BaseIncome[c]) EXCEPT
                       !.control = control[c],
                       !.pending_powerup =
                           IF c = Alpha THEN Some(PendingBonus) ELSE None]],
     edges |-> << <<Alpha, Bravo>> >>]

\* The ledger spawn_player leaves: an empty queue per player.
SpawnedEvent ==
    [private_observations |-> [p \in PlayerIds |-> <<>>],
     public_observations |-> <<>>]

NewGame(roster, control, event) ==
    [cities |-> Board(control), players |-> roster, event |-> event]

\* Games met in the middle of a resolution cycle: every player alone on a
\* location, after Strike by 0, Strike by 1 and Wait by 2 since the reset.
PendingGames ==
    {wait(strike(strike(
        NewGame([p \in PlayerIds |->
                    Player(p, p, TRUE, intel, hs, FALSE, scan, FALSE, FALSE)],
                [c \in Locations |-> None], EventDefault), 0), 1), 2) :
     intel \in 0..MaxIntel, hs \in BOOLEAN, scan \in BOOLEAN}

InitialGames ==
    {NewGame(r, [c \in Locations |-> None], EventDefault) : r \in CombatRosters}
    \cup {NewGame(r, [c \in Locations |-> None], SpawnedEvent) :
             r \in StealthRosters}
    \cup {NewGame(r, c, SpawnedEvent) : r \in EconomyRosters, c \in Controls}
    \cup PendingGames

NoCall == [op |-> "none", pid |-> 0, action |-> Act("none", None), res |-> "none"]

\* The hosts while the engine is called directly: no app, no server.
NoApp == [active_player |-> 0, log |-> <<>>]

NoServer == [games |-> <<>>]

\* DemoApp.network while it is None.
NoNetwork == [peers |-> <<>>]

Hostless == app = NoApp /\ server = NoServer /\ network = NoNetwork

Init ==
    /\ game \in InitialGames
    /\ pre = game
    /\ last = NoCall
    /\ budget = 1
    /\ Hostless

(***************************************************************************)
(* Initial states of a run of play: the game a host builds before play.    *)
(* The board of the tests is built by add_location and connect_locations,  *)
(* two players are spawned, together or a move apart, and handed intel,    *)
(* and Alpha holds the pending bonus (tests::start_turn_grants_income and  *)
(* tests::reveal_respects_invisibility write these fields the same way).   *)
(***************************************************************************)
BuiltBoard ==
    LET g1 == add_location(GameNew, Name[Alpha], BaseIncome[Alpha]).game
        g2 == add_location(g1, Name[Bravo], BaseIncome[Bravo]).game
        g3 == add_location(g2, Name[Charlie], BaseIncome[Charlie]).game
        g4 == connect_locations(g3, Alpha, Bravo)
    IN  [g4 EXCEPT !.cities.nodes[Alpha].pending_powerup = Some(PendingBonus)]

RunGames ==
    {LET g1 == spawn_player(BuiltBoard, Alpha).game
         g2 == spawn_player(g1, b).game
     IN  [g2 EXCEPT !.players[0].intel = MaxIntel,
                    !.players[1].intel = MaxIntel] :
     b \in {Alpha, Bravo}}

InitRun ==
    /\ game \in RunGames
    /\ pre = game
    /\ last = NoCall
    /\ budget = MaxCalls
    /\ Hostless

(***************************************************************************)
(* Initial states for start_turn at the end of the u32 range.  intel and   *)
(* base_income are any u32 (public fields, add_location's argument, a      *)
(* snapshot a peer sent): balances within MaxIntel of u32::MAX, and a      *)
(* board whose Alpha pays u32::MAX.                                        *)
(***************************************************************************)
Balances == {MaxIntel} \cup {U32Max - k : k \in 0..MaxIntel}

WealthyRosters ==
    {[p \in PlayerIds |->
        Player(p, at[p], TRUE, intel[p], FALSE, FALSE, FALSE, TRUE, FALSE)] :
     at \in Starts, intel \in [PlayerIds -> Balances]}

\* The board with Alpha's base_income at u32::MAX if `rich`.
WealthyBoard(control, rich) ==
    [Board(control) EXCEPT
        !.nodes[Alpha].base_income = IF rich THEN U32Max ELSE @]

WealthyGames ==
    {[NewGame(r, c, SpawnedEvent) EXCEPT !.cities = WealthyBoard(c, rich)] :
     r \in WealthyRosters, c \in Controls, rich \in BOOLEAN}

InitWealth ==
    /\ game \in WealthyGames
    /\ pre = game
    /\ last = NoCall
    /\ budget = 1
    /\ Hostless

\* Construction starts from Game::new().
InitBuild ==
    /\ game = GameNew
    /\ pre = game
    /\ last = NoCall
    /\ budget = MaxSetup
    /\ Hostless

(***************************************************************************)
(* The calls.  A behaviour makes as many calls as its budget allows: one   *)
(* on the game it starts with under Spec, MaxCalls in a row under SpecRun, *)
(* MaxSetup in a row under SpecBuild.                                      *)
(***************************************************************************)
Ready == budget > 0

Call(pid, action) ==
    /\ Ready
    /\ LET r == do_action(game, pid, action)
       IN  /\ game' = r.game
           /\ last' = [op |-> "do_action", pid |-> pid, action |-> action,
                       res |-> r.res]
    /\ pre' = game
    /\ budget' = budget - 1
    /\ UNCHANGED hosts

DoStrike == \E pid \in DOMAIN game.players : Call(pid, Act("Strike", None))

DoWait == \E pid \in DOMAIN game.players : Call(pid, Act("Wait", None))

DoCapture == \E pid \in DOMAIN game.players : Call(pid, Act("Capture", None))

DoHideSignals ==
    \E pid \in DOMAIN game.players : Call(pid, Act("HideSignals", None))

DoInvisible ==
    \E pid \in DOMAIN game.players : Call(pid, Act("Invisible", None))

DoPrepare == \E pid \in DOMAIN game.players : Call(pid, Act("Prepare", None))

\* Action::Move carries any NodeIndex: those of the board and the first one
\* beyond it.
Destinations ==
    DOMAIN game.cities.nodes \cup {Cardinality(DOMAIN game.cities.nodes)}

DoMove ==
    \E pid \in DOMAIN game.players, to \in Destinations :
        Call(pid, Act("Move", Some(to)))

DoReveal ==
    \E pid \in DOMAIN game.players :
        \E target \in {None} \cup {Some(t) : t \in DOMAIN game.players} :
            Call(pid, Act("Reveal", target))

\* start_turn(pid) in a build with or without overflow checks.
StartTurn ==
    \E pid \in DOMAIN game.players, overflow_checks \in BOOLEAN :
        /\ Ready
        /\ IF overflow_checks /\ start_turn_panics(game, pid)
           THEN /\ game' = start_turn_unwound(game, pid)
                /\ last' = [op |-> "start_turn", pid |-> pid,
                            action |-> Act("none", None), res |-> "Panic"]
           ELSE /\ game' = start_turn(game, pid)
                /\ last' = [op |-> "start_turn", pid |-> pid,
                            action |-> Act("none", None), res |-> "Ok"]
        /\ pre' = game
        /\ budget' = budget - 1
        /\ UNCHANGED hosts

ResetEvent ==
    /\ Ready
    /\ game' = reset_event(game)
    /\ last' = [op |-> "reset_event", pid |-> 0,
                action |-> Act("none", None), res |-> "Ok"]
    /\ pre' = game
    /\ budget' = budget - 1
    /\ UNCHANGED hosts

\* add_location(name, base_income), with the names and incomes of the tests;
\* `last` keeps the income given.
AddLocation ==
    \E c \in {Alpha, Bravo} :
        /\ Ready
        /\ game' = add_location(game, Name[c], BaseIncome[c]).game
        /\ last' = [op |-> "add_location", pid |-> 0,
                    action |-> Act("none", Some(BaseIncome[c])), res |-> "Ok"]
        /\ pre' = game
        /\ budget' = budget - 1
        /\ UNCHANGED hosts

\* connect_locations(a, b); `last` keeps the pair <<a, b>>.
ConnectLocations ==
    \E a \in DOMAIN game.cities.nodes, b \in DOMAIN game.cities.nodes :
        /\ Ready
        /\ game' = connect_locations(game, a, b)
        /\ last' = [op |-> "connect_locations", pid |-> 0,
                    action |-> Act("none", Some(<<a, b>>)), res |-> "Ok"]
        /\ pre' = game
        /\ budget' = budget - 1
        /\ UNCHANGED hosts

\* spawn_player(start_at); `last` keeps start_at and, as pid, the id returned.
SpawnPlayer ==
    \E start_at \in DOMAIN game.cities.nodes :
        /\ Ready
        /\ LET r == spawn_player(game, start_at)
           IN  /\ game' = r.game
               /\ last' = [op |-> "spawn_player", pid |-> r.id,
                           action |-> Act("none", Some(start_at)),
                           res |-> "Ok"]
        /\ pre' = game
        /\ budget' = budget - 1
        /\ UNCHANGED hosts

Next ==
    \/ DoStrike
    \/ DoWait
    \/ DoCapture
    \/ DoHideSignals
    \/ DoInvisible
    \/ DoPrepare
    \/ DoMove
    \/ DoReveal
    \/ StartTurn
    \/ ResetEvent
    \/ AddLocation
    \/ ConnectLocations
    \/ SpawnPlayer

Spec == Init /\ [][Next]_vars

\* Play: the calls a host makes once the board is built.
NextPlay ==
    \/ DoStrike
    \/ DoWait
    \/ DoCapture
    \/ DoHideSignals
    \/ DoInvisible
    \/ DoPrepare
    \/ DoMove
    \/ DoReveal
    \/ StartTurn
    \/ ResetEvent
    \/ SpawnPlayer

SpecRun == InitRun /\ [][NextPlay]_vars

\* Construction: the calls that build the board and the roster.
NextBuild ==
    \/ AddLocation
    \/ ConnectLocations
    \/ SpawnPlayer

SpecBuild == InitBuild /\ [][NextBuild]_vars

\* start_turn on the games at the end of the u32 range.
NextWealth == StartTurn

SpecWealth == InitWealth /\ [][NextWealth]_vars

(***************************************************************************)
(* Vocabulary of the properties: the last call and what it added.          *)
(***************************************************************************)
Acted(kind) == last.op = "do_action" /\ last.action.kind = kind

Appending == last.op \in {"do_action", "start_turn"}

\* What `new` holds beyond `old`.
Added(old, new) == SubSeq(new, Len(old) + 1, Len(new))

AddedPrivate(p) == Added(Private(pre, p), Private(game, p))

AddedPublic == Added(Public(pre), Public(game))

\* Observations of different variants are told apart by their type first.
Same(o, x) == o.type = x.type /\ o = x

Count(seq, x) == Cardinality({i \in 1..Len(seq) : Same(seq[i], x)})

\* Every observation of the queue satisfies P.
Every(seq, P(_)) == \A i \in 1..Len(seq) : P(seq[i])

\* The observations that carry a location, and those that carry none.
Located(o) ==
    \/ o.type \in {"Capture", "Reveal"}
    \/ o.type = "Strike" /\ o.at # None

Unlocated(o) == ~Located(o)

\* The observation says where player q is: it names q and the location at.
Locates(o, q, at) ==
    \/ o.type = "Capture" /\ o.by = q /\ o.at = at
    \/ o.type = "Strike" /\ o.by = Some(q) /\ o.at = Some(at)
    \/ o.type = "Reveal" /\ o.who = q /\ o.at = at

\* The board has an edge between a and b, in either direction.
Joined(g, a, b) ==
    {a, b} \in {{g.cities.edges[i][1], g.cities.edges[i][2]} :
                   i \in 1..Len(g.cities.edges)}

(***************************************************************************)
(* C1.  Whenever do_action returns an error (NotEnoughIntel or WouldNoop), *)
(* the whole game is exactly as before the call: roster, board and both    *)
(* tiers of the ledger.                                                    *)
(***************************************************************************)
C1_ErrorLeavesGameUnchanged ==
    (last.op = "do_action" /\ last.res \in {"NotEnoughIntel", "WouldNoop"})
        => game = pre

\* Invisible refused to a player holding 1 intel, less than its cost.
C1_Witness ==
    /\ Acted("Invisible")
    /\ last.res = "NotEnoughIntel"
    /\ pre.players[last.pid].intel = 1

(***************************************************************************)
(* C2.  For every purchase attempt the balance after the call is never     *)
(* negative, and when the attempt fails with NotEnoughIntel the balance    *)
(* equals the balance before the call: of the purchase the last action     *)
(* made, and of a purchase of any kind by any player of the current game.  *)
(***************************************************************************)
C2_PurchaseKeepsBalanceSound ==
    /\ (\E k \in {"HideSignals", "Invisible", "Reveal"} : Acted(k)) =>
          /\ game.players[last.pid].intel >= 0
          /\ last.res = "NotEnoughIntel" =>
                game.players[last.pid].intel = pre.players[last.pid].intel
    /\ \A p \in DOMAIN game.players, k \in IntelKinds :
          LET bought == purchase(game.players[p], k)
          IN  /\ bought.player.intel >= 0
              /\ bought.res = "NotEnoughIntel" =>
                    bought.player.intel = game.players[p].intel

\* HideSignals refused to a player holding 1 intel, who still holds it.
C2_Witness ==
    /\ Acted("HideSignals")
    /\ last.res = "NotEnoughIntel"
    /\ pre.players[last.pid].intel = 1
    /\ game.players[last.pid].intel = 1

(***************************************************************************)
(* C3.  While a player's invisible flag is set, no observation added to    *)
(* the public queue or to another player's private queue says where that   *)
(* player is, whatever action that player or any other performs.           *)
(***************************************************************************)
C3_InvisibleLocationNeverObserved ==
    Appending =>
        \A q \in DOMAIN pre.players :
            pre.players[q].invisible =>
                LET Silent(o) == ~Locates(o, q, game.players[q].location)
                IN  /\ Every(AddedPublic, Silent)
                    /\ \A r \in DOMAIN game.players \ {q} :
                          Every(AddedPrivate(r), Silent)

(***************************************************************************)
(* C4.  Through every reveal path (targeted Reveal, untargeted Reveal,     *)
(* Move with active_scan, start_turn) no Reveal observation is emitted for *)
(* a player whose invisible flag is set at that moment, whatever that      *)
(* player's concealed flag is.                                             *)
(***************************************************************************)
C4_NoRevealOfInvisible ==
    Appending =>
        LET Allowed(o) == o.type = "Reveal" => ~pre.players[o.who].invisible
        IN  /\ Every(AddedPublic, Allowed)
            /\ \A r \in DOMAIN game.players : Every(AddedPrivate(r), Allowed)

\* An actively scanning mover arrived where an invisible, concealed player
\* stands.
C4_Witness ==
    /\ Acted("Move")
    /\ last.res = "Ok"
    /\ pre.players[last.pid].active_scan
    /\ \E q \in DOMAIN pre.players \ {last.pid} :
          /\ pre.players[q].invisible
          /\ pre.players[q].concealed
          /\ pre.players[q].location = last.action.arg[1]

(***************************************************************************)
(* C5.  A targeted Reveal by a requester with enough intel at a target     *)
(* whose invisible flag is set appends exactly one RevealFailure naming    *)
(* only the target to the requester's private queue, and no observation    *)
(* carrying a location to any queue.                                       *)
(***************************************************************************)
C5_RevealOfInvisibleFails ==
    (/\ Acted("Reveal")
     /\ last.action.arg # None
     /\ pre.players[last.pid].intel >= 1
     /\ pre.players[last.action.arg[1]].invisible) =>
        /\ last.res = "Ok"
        /\ Private(game, last.pid)
              = Append(Private(pre, last.pid), RevealFailure(last.action.arg[1]))
        /\ DOMAIN RevealFailure(last.action.arg[1]) = {"type", "who"}
        /\ \A r \in DOMAIN game.players : Every(AddedPrivate(r), Unlocated)
        /\ Every(AddedPublic, Unlocated)

\* The requester aimed at an invisible player standing elsewhere.
C5_Witness ==
    /\ Acted("Reveal")
    /\ last.res = "Ok"
    /\ last.action.arg # None
    /\ last.action.arg[1] # last.pid
    /\ pre.players[last.action.arg[1]].invisible
    /\ pre.players[last.action.arg[1]].location # pre.players[last.pid].location

(***************************************************************************)
(* C6.  A targeted Reveal by a requester with enough intel at a target     *)
(* whose invisible flag is not set appends to the requester's private      *)
(* queue a Reveal naming the target and the target's current location,     *)
(* wherever the two stand and whatever the target's concealed flag is.     *)
(***************************************************************************)
C6_RevealOfVisibleSucceeds ==
    (/\ Acted("Reveal")
     /\ last.action.arg # None
     /\ pre.players[last.pid].intel >= 1
     /\ ~pre.players[last.action.arg[1]].invisible) =>
        /\ last.res = "Ok"
        /\ Private(game, last.pid)
              = Append(Private(pre, last.pid),
                       Reveal(last.action.arg[1],
                              game.players[last.action.arg[1]].location))
        /\ game.players[last.action.arg[1]].location
              = pre.players[last.action.arg[1]].location

\* The target is concealed and stands elsewhere than the requester.
C6_Witness ==
    /\ Acted("Reveal")
    /\ last.res = "Ok"
    /\ last.action.arg # None
    /\ ~pre.players[last.action.arg[1]].invisible
    /\ pre.players[last.action.arg[1]].concealed
    /\ pre.players[last.action.arg[1]].location # pre.players[last.pid].location

(***************************************************************************)
(* Strike: the other players standing where the striker stands.            *)
(***************************************************************************)
Victims(pid) ==
    {v \in DOMAIN pre.players \ {pid} :
        pre.players[v].location = pre.players[pid].location}

IsDeath(o) == o.type = "Death"

IsStrike(o) == o.type = "Strike"

(***************************************************************************)
(* C7.  After Strike by pid every other player located at pid's location   *)
(* is not alive and no other alive flag changes; for each such victim v    *)
(* exactly one Death(by pid, of v) is appended to pid's private queue and  *)
(* exactly one to v's; no Death observation reaches any other player's     *)
(* queue or the public queue.                                              *)
(***************************************************************************)
C7_StrikeKillsAndTellsOnlyThoseInvolved ==
    Acted("Strike") =>
        LET pid == last.pid
            Deaths(q) == SelectSeq(AddedPrivate(q), IsDeath)
        IN  /\ \A q \in DOMAIN game.players :
                  game.players[q].alive =
                      IF q \in Victims(pid) THEN FALSE ELSE pre.players[q].alive
            /\ Len(Deaths(pid)) = Cardinality(Victims(pid))
            /\ \A v \in Victims(pid) :
                  /\ Count(Deaths(pid), Death(pid, v)) = 1
                  /\ Deaths(v) = <<Death(pid, v)>>
            /\ \A q \in DOMAIN game.players \ (Victims(pid) \cup {pid}) :
                  Deaths(q) = <<>>
            /\ SelectSeq(AddedPublic, IsDeath) = <<>>
            /\ \A q \in DOMAIN game.players :
                  SubSeq(Private(game, q), 1, Len(Private(pre, q)))
                      = Private(pre, q)

\* The striker shares its location with one player and not with the third.
C7_Witness ==
    /\ Acted("Strike")
    /\ Cardinality(Victims(last.pid)) = 1
    /\ \E v \in Victims(last.pid) : pre.players[v].alive /\ ~game.players[v].alive
    /\ \E q \in DOMAIN game.players \ (Victims(last.pid) \cup {last.pid}) :
          game.players[q].alive

(***************************************************************************)
(* C8.  After Strike by pid, every other player who is at a different      *)
(* location than pid and whose visible_violence flag is not set receives a *)
(* Strike observation whose location is absent.                            *)
(***************************************************************************)
C8_DistantStrikeHidesLocation ==
    Acted("Strike") =>
        \A q \in DOMAIN pre.players \ {last.pid} :
            (/\ pre.players[q].location # pre.players[last.pid].location
             /\ ~pre.players[q].visible_violence) =>
                SelectSeq(AddedPrivate(q), IsStrike)
                    = <<Strike(Some(last.pid), None)>>

(***************************************************************************)
(* C9.  Each Strike by pid appends exactly one Strike observation naming   *)
(* pid to the private queue of every other player, alive or not, and none  *)
(* to pid's own queue or the public queue; that observation carries pid's  *)
(* location when the recipient's visible_violence flag is set or the       *)
(* recipient was killed by this strike.                                    *)
(***************************************************************************)
C9_StrikeNoticePerOtherPlayer ==
    Acted("Strike") =>
        LET pid == last.pid
            Strikes(q) == SelectSeq(AddedPrivate(q), IsStrike)
        IN  /\ \A q \in DOMAIN game.players \ {pid} :
                  /\ Len(Strikes(q)) = 1
                  /\ Strikes(q)[1].by = Some(pid)
                  /\ (pre.players[q].visible_violence \/ q \in Victims(pid)) =>
                        Strikes(q)[1].at = Some(pre.players[pid].location)
            /\ Strikes(pid) = <<>>
            /\ Public(game) = Public(pre)

\* One recipient was killed without visible_violence, another stands
\* elsewhere with visible_violence.
C9_Witness ==
    /\ Acted("Strike")
    /\ \E v \in Victims(last.pid) :
          pre.players[v].alive /\ ~pre.players[v].visible_violence
    /\ \E q \in DOMAIN pre.players \ (Victims(last.pid) \cup {last.pid}) :
          pre.players[q].visible_violence

(***************************************************************************)
(* C10.  do_action(pid, Move(dest)) succeeds if and only if the board has  *)
(* an edge between pid's current location and dest; on success pid's       *)
(* location becomes dest and no other player's location changes, on        *)
(* failure the result is WouldNoop and pid's location is unchanged.        *)
(***************************************************************************)
C10_MoveFollowsEdges ==
    Acted("Move") =>
        LET pid == last.pid
            dest == last.action.arg[1]
        IN  /\ last.res = "Ok" <=> Joined(pre, pre.players[pid].location, dest)
            /\ last.res = "Ok" =>
                  /\ game.players[pid].location = dest
                  /\ \A q \in DOMAIN game.players \ {pid} :
                        game.players[q].location = pre.players[q].location
            /\ last.res # "Ok" =>
                  /\ last.res = "WouldNoop"
                  /\ game.players[pid].location = pre.players[pid].location

\* A move from Bravo to Alpha, against the direction the edge was stored in.
C10_Witness ==
    /\ Acted("Move")
    /\ last.res = "Ok"
    /\ pre.players[last.pid].location = Bravo
    /\ game.players[last.pid].location = Alpha

(***************************************************************************)
(* C11.  start_turn(pid) raises pid's intel by exactly the sum of          *)
(* base_income over the locations whose controller is pid when the call is *)
(* made, plus the pending bonus of the location pid stands on (0 if it has *)
(* none), whether or not pid controls that location; locations controlled  *)
(* by nobody or by another player contribute nothing, and no other         *)
(* player's intel changes.                                                 *)
(***************************************************************************)
\* What location c pays pid: its base_income if pid controls it.
Pays(g, c, pid) ==
    IF g.cities.nodes[c].control = Some(pid)
    THEN g.cities.nodes[c].base_income
    ELSE 0

RECURSIVE PaysBelow(_, _, _)
\* What the locations 0 .. n-1 pay pid together.
PaysBelow(g, n, pid) ==
    IF n = 0 THEN 0 ELSE PaysBelow(g, n - 1, pid) + Pays(g, n - 1, pid)

\* The pending bonus of the location pid stands on.
BonusHere(g, pid) ==
    LET pending == g.cities.nodes[g.players[pid].location].pending_powerup
    IN  IF pending = None THEN 0 ELSE pending[1]

C11_StartTurnIncome ==
    last.op = "start_turn" =>
        LET pid == last.pid
        IN  /\ game.players[pid].intel =
                  pre.players[pid].intel
                      + PaysBelow(pre, Cardinality(DOMAIN pre.cities.nodes), pid)
                      + BonusHere(pre, pid)
            /\ \A q \in DOMAIN pre.players \ {pid} :
                  game.players[q].intel = pre.players[q].intel

\* Player 2 starts its turn on Alpha, which player 1 controls and which
\* holds the bonus, while it controls Charlie: it earns 1 + 3.
C11_Witness ==
    /\ last.op = "start_turn"
    /\ last.pid = 2
    /\ pre.players[2].location = Alpha
    /\ pre.cities.nodes[Alpha].control = Some(1)
    /\ pre.cities.nodes[Alpha].pending_powerup = Some(PendingBonus)
    /\ pre.cities.nodes[Bravo].control = None
    /\ pre.cities.nodes[Charlie].control = Some(2)
    /\ game.players[2].intel = pre.players[2].intel + 1 + PendingBonus

(***************************************************************************)
(* C12.  After a successful Invisible action by pid, pid's invisible flag  *)
(* stays set through every action of any player and every start_turn of    *)
(* another player, and the next start_turn(pid) clears it: start_turn(pid) *)
(* leaves pid's invisible flag false whatever it was and never changes the *)
(* invisible flag of another player.                                       *)
(***************************************************************************)
\* The last call was start_turn(p).
TurnOf(p) == last.op = "start_turn" /\ last.pid = p

C12_InvisibleLastsUntilOwnTurn ==
    /\ (Acted("Invisible") /\ last.res = "Ok") =>
          game.players[last.pid].invisible
    /\ \A p \in DOMAIN pre.players :
          (pre.players[p].invisible /\ ~TurnOf(p)) => game.players[p].invisible
    /\ last.op = "start_turn" =>
          /\ ~game.players[last.pid].invisible
          /\ \A q \in DOMAIN pre.players \ {last.pid} :
                game.players[q].invisible = pre.players[q].invisible

\* Invisible by player 0, Wait by player 1 with player 0 still invisible,
\* then start_turn(0), which clears the flag.
C12_Witness ==
    /\ TurnOf(0)
    /\ Len(Public(pre)) = 2
    /\ Same(Public(pre)[1], Intel(Some(0), Some("Invisible")))
    /\ Same(Public(pre)[2], WaitMove(Some(1)))
    /\ pre.players[0].invisible
    /\ ~game.players[0].invisible

(***************************************************************************)
(* C13.  A successful HideSignals lowers the actor's intel by exactly 2, a *)
(* successful Invisible by exactly 2, a successful Reveal by exactly 1     *)
(* (with or without a target, whether it yields Reveal or RevealFailure)   *)
(* and Prepare by 0.  Each fails with NotEnoughIntel exactly when its flag *)
(* precondition holds (the flag it would set is not set yet; Reveal has    *)
(* none) and the balance is below that cost; Prepare never fails; no other *)
(* player's intel changes.                                                 *)
(***************************************************************************)
Purchases == {"HideSignals", "Invisible", "Reveal", "Prepare"}

\* The costs as the property states them.
Price(kind) ==
    CASE kind = "HideSignals" -> 2
      [] kind = "Invisible" -> 2
      [] kind = "Reveal" -> 1
      [] kind = "Prepare" -> 0

\* The flag precondition of the purchase: the flag it sets is not set yet.
Unflagged(g, pid, kind) ==
    CASE kind = "HideSignals" -> ~g.players[pid].hidden_signals
      [] kind = "Invisible" -> ~g.players[pid].invisible
      [] OTHER -> TRUE

C13_PurchasesCostTheirPrice ==
    (last.op = "do_action" /\ last.action.kind \in Purchases) =>
        LET pid == last.pid
            kind == last.action.kind
        IN  /\ last.res = "Ok" =>
                  game.players[pid].intel = pre.players[pid].intel - Price(kind)
            /\ last.res = "NotEnoughIntel" <=>
                  (Unflagged(pre, pid, kind) /\ pre.players[pid].intel < Price(kind))
            /\ kind = "Prepare" => last.res = "Ok"
            /\ \A q \in DOMAIN pre.players \ {pid} :
                  game.players[q].intel = pre.players[q].intel

\* A Reveal aimed at an invisible player: it yields RevealFailure and still
\* costs the requester its one intel.
C13_Witness ==
    /\ Acted("Reveal")
    /\ last.res = "Ok"
    /\ last.action.arg # None
    /\ pre.players[last.action.arg[1]].invisible
    /\ pre.players[last.pid].intel = 1
    /\ game.players[last.pid].intel = 0

(***************************************************************************)
(* C14.  HideSignals by a player whose hidden_signals flag is already set, *)
(* and Invisible by a player whose invisible flag is already set, fail     *)
(* with WouldNoop whatever the balance, never with NotEnoughIntel; when    *)
(* the flag is not set and the balance covers the cost, the action         *)
(* succeeds and the flag is set afterwards.                                *)
(***************************************************************************)
C14_SetFlagWouldNoop ==
    /\ Acted("HideSignals") =>
          LET pid == last.pid
          IN  /\ pre.players[pid].hidden_signals => last.res = "WouldNoop"
              /\ (~pre.players[pid].hidden_signals
                      /\ pre.players[pid].intel >= Price("HideSignals")) =>
                    (last.res = "Ok" /\ game.players[pid].hidden_signals)
    /\ Acted("Invisible") =>
          LET pid == last.pid
          IN  /\ pre.players[pid].invisible => last.res = "WouldNoop"
              /\ (~pre.players[pid].invisible
                      /\ pre.players[pid].intel >= Price("Invisible")) =>
                    (last.res = "Ok" /\ game.players[pid].invisible)

\* HideSignals by a player with the flag set and nothing to spend.
C14_Witness ==
    /\ Acted("HideSignals")
    /\ pre.players[last.pid].hidden_signals
    /\ pre.players[last.pid].intel = 0
    /\ last.res = "WouldNoop"

(***************************************************************************)
(* C15.  Every intel-spend notice produced by Invisible, Reveal or Prepare *)
(* names the kind of the purchase exactly when the actor's hidden_signals  *)
(* flag is not set when the action is taken; when the flag is set the      *)
(* notice is still emitted, without a kind.                                *)
(***************************************************************************)
C15_HiddenSignalsHideTheKind ==
    (last.op = "do_action" /\ last.res = "Ok"
        /\ last.action.kind \in {"Invisible", "Reveal", "Prepare"}) =>
        LET pid == last.pid
            kind == IF pre.players[pid].hidden_signals
                    THEN None
                    ELSE Some(last.action.kind)
        IN  /\ Len(AddedPublic) = 1
            /\ Same(AddedPublic[1], Intel(Some(pid), kind))

\* An Invisible by a player with hidden signals: a notice without a kind.
C15_Witness ==
    /\ Acted("Invisible")
    /\ last.res = "Ok"
    /\ pre.players[last.pid].hidden_signals
    /\ Len(AddedPublic) = 1
    /\ Same(AddedPublic[1], Intel(Some(last.pid), None))

(***************************************************************************)
(* C16.  Capture by pid always succeeds, whoever controlled the location   *)
(* before: afterwards the controller of the location pid stands on is pid, *)
(* no other location's controller and no player's intel, flags or location *)
(* has changed, exactly one Capture(by = pid, at = that location) has been *)
(* appended to the public queue and nothing to any private queue.          *)
(***************************************************************************)
C16_CaptureTakesTheLocation ==
    Acted("Capture") =>
        LET pid == last.pid
            at == pre.players[pid].location
        IN  /\ last.res = "Ok"
            /\ game.cities.nodes[at].control = Some(pid)
            /\ \A c \in DOMAIN pre.cities.nodes \ {at} :
                  game.cities.nodes[c].control = pre.cities.nodes[c].control
            /\ game.players = pre.players
            /\ Len(AddedPublic) = 1
            /\ Same(AddedPublic[1], Capture(pid, at))
            /\ \A p \in DOMAIN pre.players : Len(AddedPrivate(p)) = 0

\* Player 1 captures Alpha, which player 0 controlled.
C16_Witness ==
    /\ Acted("Capture")
    /\ last.pid = 1
    /\ pre.players[1].location = Alpha
    /\ pre.cities.nodes[Alpha].control = Some(0)
    /\ game.cities.nodes[Alpha].control = Some(1)

(***************************************************************************)
(* C17.  connect_locations(a, b) is idempotent and order-independent:      *)
(* after any sequence of calls that includes connect_locations(a, b) or    *)
(* connect_locations(b, a), once or more often, the board holds exactly    *)
(* one edge between a and b, and all other edges are unchanged.            *)
(* Stated call by call: the call leaves exactly one edge between a and b,  *)
(* keeps the edges the board had and adds none between other locations;    *)
(* no call removes an edge or doubles one.                                 *)
(***************************************************************************)
\* The number of edges of the board between a and b, in either direction.
EdgesBetween(g, a, b) ==
    Cardinality({i \in 1..Len(g.cities.edges) :
                    {g.cities.edges[i][1], g.cities.edges[i][2]} = {a, b}})

\* The board of `new` holds the edges of `old`, at the positions they had.
KeepsEdges(old, new) ==
    /\ Len(new.cities.edges) >= Len(old.cities.edges)
    /\ SubSeq(new.cities.edges, 1, Len(old.cities.edges)) = old.cities.edges

C17_ConnectOnce ==
    /\ KeepsEdges(pre, game)
    /\ \A a \in DOMAIN game.cities.nodes, b \in DOMAIN game.cities.nodes :
          EdgesBetween(game, a, b) <= 1
    /\ last.op = "connect_locations" =>
          LET a == last.action.arg[1][1]
              b == last.action.arg[1][2]
              added == Added(pre.cities.edges, game.cities.edges)
          IN  /\ EdgesBetween(game, a, b) = 1
              /\ EdgesBetween(game, b, a) = 1
              /\ \A i \in 1..Len(added) : {added[i][1], added[i][2]} = {a, b}

\* connect_locations(Bravo, Alpha) on a board that holds the edge added by
\* connect_locations(Alpha, Bravo): the board keeps its one edge.
C17_Witness ==
    /\ last.op = "connect_locations"
    /\ last.action.arg = Some(<<Bravo, Alpha>>)
    /\ find_edge_directed(pre, Alpha, Bravo)
    /\ game.cities.edges = pre.cities.edges
    /\ EdgesBetween(game, Alpha, Bravo) = 1

(***************************************************************************)
(* C18.  Through any sequence of spawn_player, do_action, start_turn and   *)
(* reset_event calls the roster never shrinks and the player stored at     *)
(* position i has id i; spawn_player returns the length the roster had     *)
(* before the insertion and creates a player that is alive, has zero       *)
(* intel, all five flags false and the location given; players marked not  *)
(* alive keep their slot.                                                  *)
(***************************************************************************)
C18_RosterDenseAndStable ==
    /\ DOMAIN game.players = 0..(NumPlayers(game) - 1)
    /\ \A i \in DOMAIN game.players : game.players[i].id = i
    /\ NumPlayers(game) >= NumPlayers(pre)
    /\ \A i \in DOMAIN pre.players :
          ~pre.players[i].alive => (i \in DOMAIN game.players)
    /\ last.op = "spawn_player" =>
          LET id == last.pid
              new == game.players[id]
          IN  /\ id = NumPlayers(pre)
              /\ NumPlayers(game) = NumPlayers(pre) + 1
              /\ \A i \in DOMAIN pre.players : game.players[i] = pre.players[i]
              /\ new.alive
              /\ new.intel = 0
              /\ ~new.hidden_signals /\ ~new.visible_violence
              /\ ~new.active_scan /\ ~new.concealed /\ ~new.invisible
              /\ new.location = last.action.arg[1]

\* A player is spawned after player 1 was struck dead: the newcomer gets
\* id 2 and player 1 keeps slot 1.
C18_Witness ==
    /\ last.op = "spawn_player"
    /\ last.pid = 2
    /\ ~pre.players[1].alive
    /\ ~game.players[1].alive
    /\ game.players[1].id = 1
    /\ game.players[2].alive

(***************************************************************************)
(* C19.  The ledger is only ever extended or wholly reset: every do_action *)
(* and every start_turn leaves the content each private queue and the      *)
(* public queue had as a prefix of its new content (observations are       *)
(* appended in the order they occur), and reset_event empties every        *)
(* private queue and the public queue and leaves board and roster          *)
(* unchanged.                                                              *)
(***************************************************************************)
\* The queue `new` begins with the queue `old`.
Extends(old, new) ==
    /\ Len(new) >= Len(old)
    /\ \A i \in 1..Len(old) : Same(new[i], old[i])

C19_LedgerExtendedOrReset ==
    /\ Appending =>
          /\ Extends(Public(pre), Public(game))
          /\ DOMAIN pre.event.private_observations
                \subseteq DOMAIN game.event.private_observations
          /\ \A p \in DOMAIN pre.players \cup DOMAIN pre.event.private_observations :
                Extends(Private(pre, p), Private(game, p))
    /\ last.op = "reset_event" =>
          /\ Len(Public(game)) = 0
          /\ \A p \in DOMAIN game.players : Len(Private(game, p)) = 0
          /\ \A p \in DOMAIN game.event.private_observations :
                Len(game.event.private_observations[p]) = 0
          /\ game.cities = pre.cities
          /\ game.players = pre.players

\* A second Reveal by the same player in one cycle: its private queue and
\* the public queue both held observations and both grew.
C19_Witness ==
    /\ Acted("Reveal")
    /\ last.res = "Ok"
    /\ Len(Public(pre)) >= 1
    /\ Len(Private(pre, last.pid)) >= 1
    /\ Len(Public(game)) > Len(Public(pre))
    /\ Len(Private(game, last.pid)) > Len(Private(pre, last.pid))

(***************************************************************************)
(* C20.  start_turn(pid) clears the concealed flag of every other player   *)
(* who is not invisible and stands on pid's current location, and appends  *)
(* one Reveal(that player, that location) per such player to pid's private *)
(* queue; players who are invisible or elsewhere keep their concealed flag *)
(* and give rise to no observation, and nothing is added to the public     *)
(* queue or to the private queue of any other player.                      *)
(***************************************************************************)
\* The players start_turn(pid) finds: others, not invisible, where pid is.
Found(pid) ==
    {q \in DOMAIN pre.players \ {pid} :
        /\ ~pre.players[q].invisible
        /\ pre.players[q].location = pre.players[pid].location}

C20_StartTurnFindsCompany ==
    last.op = "start_turn" =>
        LET pid == last.pid
            here == pre.players[pid].location
        IN  /\ \A q \in Found(pid) :
                  /\ ~game.players[q].concealed
                  /\ Count(AddedPrivate(pid), Reveal(q, here)) = 1
            /\ Len(AddedPrivate(pid)) = Cardinality(Found(pid))
            /\ \A q \in DOMAIN pre.players \ Found(pid) :
                  game.players[q].concealed = pre.players[q].concealed
            /\ Len(AddedPublic) = 0
            /\ \A p \in DOMAIN pre.players \ {pid} : Len(AddedPrivate(p)) = 0

\* Player 0 starts its turn where the concealed players 1 and 2 stand:
\* player 1 is found and loses the flag, the invisible player 2 keeps it.
C20_Witness ==
    /\ last.op = "start_turn"
    /\ last.pid = 0
    /\ Found(0) = {1}
    /\ pre.players[2].location = pre.players[0].location
    /\ pre.players[2].invisible
    /\ pre.players[1].concealed /\ ~game.players[1].concealed
    /\ pre.players[2].concealed /\ game.players[2].concealed
    /\ Len(AddedPrivate(0)) = 1

(***************************************************************************)
(* C21.  start_turn changes no attribute of any location; in particular    *)
(* the pending bonus of the location pid stands on is still there after    *)
(* the call, so consecutive start_turn(pid) calls with no change of        *)
(* control or position in between each raise pid's intel by the same       *)
(* income, the bonus included.                                             *)
(***************************************************************************)
\* What the call just made raised the intel of player p by.
Raise(p) == game.players[p].intel - pre.players[p].intel

C21_StartTurnKeepsTheBonus ==
    (last.op = "start_turn" /\ last.res = "Ok") =>
        LET pid == last.pid
            here == pre.players[pid].location
            again == start_turn(game, pid)
        IN  /\ game.cities = pre.cities
            /\ game.cities.nodes[here].pending_powerup =
                  pre.cities.nodes[here].pending_powerup
            /\ again.cities = pre.cities
            /\ again.players[pid].intel - game.players[pid].intel = Raise(pid)

\* The second of two start_turn(0) in a row on Alpha: both paid the bonus.
C21_Witness ==
    /\ TurnOf(0)
    /\ pre.players[0].location = Alpha
    /\ pre.players[0].intel = MaxIntel + PendingBonus
    /\ game.players[0].intel = MaxIntel + PendingBonus + PendingBonus
    /\ game.cities.nodes[Alpha].pending_powerup = Some(PendingBonus)

(***************************************************************************)
(* C22.  A Reveal without a target by pid with enough intel appends to     *)
(* pid's private queue exactly one observation per other player, in roster *)
(* order: a Reveal with identity and location if that player stands where  *)
(* pid stands and is not invisible, otherwise a RevealFailure with the     *)
(* identity only; so no location of a player elsewhere is disclosed, and   *)
(* no other player's private queue changes.                                *)
(***************************************************************************)
\* The k-th player of the roster once pid is left out.
OtherAt(pid, k) == IF k - 1 < pid THEN k - 1 ELSE k

C22_SweepTellsOfCompanyOnly ==
    (Acted("Reveal") /\ last.action.arg = None) =>
        LET pid == last.pid
            here == pre.players[pid].location
            told == AddedPrivate(pid)
        IN  /\ last.res = "Ok" <=> pre.players[pid].intel >= Price("Reveal")
            /\ last.res = "Ok" =>
                  /\ Len(told) = NumPlayers(pre) - 1
                  /\ \A k \in 1..Len(told) :
                        LET q == OtherAt(pid, k)
                        IN  IF pre.players[q].location = here
                                  /\ ~pre.players[q].invisible
                            THEN Same(told[k], Reveal(q, here))
                            ELSE Same(told[k], RevealFailure(q))
                  /\ \A p \in DOMAIN pre.players \ {pid} :
                        Len(AddedPrivate(p)) = 0

\* Player 1 sweeps: player 0 stands with it, player 2, visible, elsewhere.
C22_Witness ==
    /\ Acted("Reveal")
    /\ last.action.arg = None
    /\ last.res = "Ok"
    /\ last.pid = 1
    /\ pre.players[0].location = pre.players[1].location
    /\ ~pre.players[0].invisible
    /\ pre.players[2].location # pre.players[1].location
    /\ ~pre.players[2].invisible
    /\ Len(AddedPrivate(1)) = 2
    /\ Same(AddedPrivate(1)[2], RevealFailure(2))

(***************************************************************************)
(* C23.  No do_action call ever returns NotYourTurn: any player may submit *)
(* any action at any time, in any order relative to the other players and  *)
(* without a start_turn before it, and the outcome depends only on the     *)
(* board and the roster as they are: the same call on the same board and   *)
(* roster with an empty ledger gives the same result, roster and board.    *)
(***************************************************************************)
C23_NoTurnOrder ==
    last.op = "do_action" =>
        LET afresh == do_action(reset_event(pre), last.pid, last.action)
        IN  /\ last.res \in {"Ok", "NotEnoughIntel", "WouldNoop"}
            /\ last.res # "NotYourTurn"
            /\ afresh.res = last.res
            /\ afresh.game.players = game.players
            /\ afresh.game.cities = game.cities

\* Player 1 acts with success in the cycle that began with start_turn(0),
\* which told player 0 of it, and without a start_turn of its own.
C23_Witness ==
    /\ last.op = "do_action"
    /\ last.pid = 1
    /\ last.res = "Ok"
    /\ Len(Public(pre)) = 0
    /\ Len(Private(pre, 0)) = 1
    /\ Same(Private(pre, 0)[1], Reveal(1, Alpha))
    /\ Len(Private(pre, 1)) = 0

(***************************************************************************)
(* C24.  A successful Move by a player with active_scan set appends to the *)
(* mover's private queue exactly one Reveal(player, destination) for each  *)
(* other player who stands on the destination and is not invisible, and    *)
(* nothing else; a Move by a player without active_scan appends nothing;   *)
(* no Move ever adds to the public queue or to another player's private    *)
(* queue, or changes any concealed flag.                                   *)
(***************************************************************************)
\* The players a scanning mover pid meets on arriving at dest.
Met(pid, dest) ==
    {q \in DOMAIN pre.players \ {pid} :
        pre.players[q].location = dest /\ ~pre.players[q].invisible}

C24_ScanOnArrival ==
    Acted("Move") =>
        LET pid == last.pid
            dest == last.action.arg[1]
            told == AddedPrivate(pid)
        IN  /\ (last.res = "Ok" /\ pre.players[pid].active_scan) =>
                  /\ Len(told) = Cardinality(Met(pid, dest))
                  /\ \A q \in Met(pid, dest) : Count(told, Reveal(q, dest)) = 1
            /\ (last.res # "Ok" \/ ~pre.players[pid].active_scan) =>
                  Len(told) = 0
            /\ Len(AddedPublic) = 0
            /\ \A p \in DOMAIN pre.players \ {pid} : Len(AddedPrivate(p)) = 0
            /\ \A q \in DOMAIN pre.players :
                  game.players[q].concealed = pre.players[q].concealed

\* A scanning player 0 arrives on Bravo, where the concealed player 1 and
\* the invisible player 2 stand: it is told of player 1 alone.
C24_Witness ==
    /\ Acted("Move")
    /\ last.res = "Ok"
    /\ last.pid = 0
    /\ last.action.arg = Some(Bravo)
    /\ pre.players[0].active_scan
    /\ Met(0, Bravo) = {1}
    /\ pre.players[2].location = Bravo
    /\ pre.players[1].concealed /\ game.players[1].concealed
    /\ Len(AddedPrivate(0)) = 1
    /\ Same(AddedPrivate(0)[1], Reveal(1, Bravo))

(***************************************************************************)
(* C25.  Wait and Prepare always succeed, change no attribute of the board *)
(* or the roster (intel, flags, location, alive, controller), and each     *)
(* appends exactly one observation naming the actor to the public queue (a *)
(* wait notice, respectively an intel-spend notice) and nothing to any     *)
(* private queue.                                                          *)
(***************************************************************************)
C25_WaitAndPrepareOnlyAnnounce ==
    (Acted("Wait") \/ Acted("Prepare")) =>
        /\ last.res = "Ok"
        /\ game.players = pre.players
        /\ game.cities = pre.cities
        /\ Len(AddedPublic) = 1
        /\ Acted("Wait") => Same(AddedPublic[1], WaitMove(Some(last.pid)))
        /\ Acted("Prepare") =>
              (AddedPublic[1].type = "Intel" /\ AddedPublic[1].by = Some(last.pid))
        /\ \A p \in DOMAIN pre.players : Len(AddedPrivate(p)) = 0

\* A dead player waits: the wait is announced like any other.
C25_Witness ==
    /\ Acted("Wait")
    /\ ~pre.players[last.pid].alive
    /\ last.res = "Ok"
    /\ Len(AddedPublic) = 1
    /\ Same(AddedPublic[1], WaitMove(Some(last.pid)))

(***************************************************************************)
(* C26.  Intel is a 32-bit unsigned balance with saturating arithmetic:    *)
(* start_turn(pid) never leaves pid's balance smaller than it was before   *)
(* the call and never aborts, also when the income sum or the balance plus *)
(* the income exceeds 2^32 - 1.                                            *)
(***************************************************************************)
C26_StartTurnNeverLowersNorAborts ==
    last.op = "start_turn" =>
        /\ last.res = "Ok"
        /\ ~Below(game.players[last.pid].intel, pre.players[last.pid].intel)

(***************************************************************************)
(* The wasm DemoApp (src/wasm-app/src/lib.rs).  `game` is DemoApp.game and *)
(* `app` holds the other fields; `this` below is the two together.  One    *)
(* more field is history, not program state: `begun` is the player the     *)
(* latest start_turn of this app was called for.  A handler runs to its    *)
(* end before the next starts (the app is single-threaded and each handler *)
(* holds the RefCell borrow), so each handler is one action.  `last`       *)
(* records the handler, the app before it and the messages it broadcast.   *)
(***************************************************************************)
Delta == 3

MaxEvents == 2

This == [game |-> game, active_player |-> app.active_player, log |-> app.log, default_location |-> app.default_location, begun |-> app.begun]

Rest(this) == [active_player |-> this.active_player, log |-> this.log, default_location |-> this.default_location, begun |-> this.begun]

\* The game after setup_demo_map and the location it returns.
setup_demo_map(g) ==
    LET a == add_location(g, "Alpha", 2)
        b == add_location(a.game, "Bravo", 1)
        c == add_location(b.game, "Charlie", 1)
        d == add_location(c.game, "Delta", 3)
        alpha == a.index
        bravo == b.index
        charlie == c.index
        delta == d.index
        g1 == connect_locations(d.game, alpha, bravo)
        g2 == connect_locations(g1, bravo, charlie)
        g3 == connect_locations(g2, charlie, delta)
        g4 == connect_locations(g3, alpha, delta)
        p0 == spawn_player(g4, alpha)
        p1 == spawn_player(p0.game, delta)
    IN  [game |-> [p1.game EXCEPT
                      !.cities.nodes[alpha].control = Some(p0.id),
                      !.cities.nodes[delta].control = Some(p1.id),
                      !.players[p0.id].intel = 4,
                      !.players[p1.id].intel = 4],
         default_location |-> alpha]

\* Observation::describe: the line of text for an observation.
describe(obs) ==
    CASE obs.type = "Death" ->
            "Player " \o ToString(obs.by) \o " eliminated player " \o ToString(obs.of)
      [] obs.type = "Strike" ->
            IF obs.by # None /\ obs.at # None
            THEN "Player " \o ToString(obs.by[1]) \o " struck location " \o ToString(obs.at[1])
            ELSE IF obs.by # None
            THEN "Player " \o ToString(obs.by[1]) \o " launched a covert strike"
            ELSE "A mysterious strike occurred"
      [] obs.type = "WaitMove" ->
            IF obs.by # None
            THEN "Player " \o ToString(obs.by[1]) \o " waited"
            ELSE "An unknown player waited"
      [] obs.type = "Capture" ->
            "Player " \o ToString(obs.by) \o " captured location " \o ToString(obs.at)
      [] obs.type = "Intel" ->
            IF obs.by # None /\ obs.kind # None
            THEN "Player " \o ToString(obs.by[1]) \o " spent intel on " \o obs.kind[1]
            ELSE IF obs.by # None
            THEN "Player " \o ToString(obs.by[1]) \o " spent intel"
            ELSE "Intel activity detected"
      [] obs.type = "Reveal" ->
            "Player " \o ToString(obs.who) \o " was revealed at " \o ToString(obs.at)
      [] obs.type = "RevealFailure" ->
            "Attempted reveal on player " \o ToString(obs.who) \o " failed"

\* The log line of a private observation of pid.
describe_private(pid, obs) == "[P" \o ToString(pid) \o "] " \o describe(obs)

RECURSIVE PrivateLines(_, _, _)
\* The lines of the private queues of the players pid, pid + 1, ... below n,
\* in the map's order.
PrivateLines(ev, pid, n) ==
    IF pid >= n THEN <<>>
    ELSE LET queue == IF pid \in DOMAIN ev.private_observations
                      THEN ev.private_observations[pid] ELSE <<>>
         IN  [i \in 1..Len(queue) |-> describe_private(pid, queue[i])]
             \o PrivateLines(ev, pid + 1, n)

\* One more than the greatest key of the map of private queues.
KeyBound(ev) ==
    IF DOMAIN ev.private_observations = {} THEN 0
    ELSE 1 + CHOOSE k \in DOMAIN ev.private_observations :
                 \A j \in DOMAIN ev.private_observations : j <= k

\* record_events that logs the public observations only.
record_events_public_only(this) ==
    [this EXCEPT !.log =
        @ \o [i \in 1..Len(Public(this.game)) |-> describe(Public(this.game)[i])]]

record_events(this) ==
    [this EXCEPT !.log =
        @ \o [i \in 1..Len(Public(this.game)) |-> describe(Public(this.game)[i])]
          \o PrivateLines(this.game.event, 0, KeyBound(this.game.event))]

begin_turn(this) ==
    LET t1 == [this EXCEPT !.game = start_turn(@, this.active_player),
                           !.begun = Some(this.active_player)]
        t2 == record_events(t1)
    IN  [t2 EXCEPT !.game = reset_event(@)]

advance_turn(this) ==
    IF NumPlayers(this.game) = 0 THEN this
    ELSE begin_turn([this EXCEPT !.active_player = (@ + 1) % NumPlayers(this.game)])

\* DemoApp::new, before a network is attached.
DemoAppNew ==
    LET m == setup_demo_map(GameNew)
    IN  begin_turn([game |-> m.game, active_player |-> 0, log |-> <<>>, default_location |-> m.default_location, begun |-> None])

\* Graph::neighbors of an undirected graph: the edges that leave the node,
\* latest first, then those that arrive, latest first.
Reversed(seq) == [i \in 1..Len(seq) |-> seq[Len(seq) + 1 - i]]

neighbors(g, index) ==
    LET out == SelectSeq(g.cities.edges, LAMBDA e : e[1] = index)
        inc == SelectSeq(g.cities.edges, LAMBDA e : e[2] = index /\ e[1] # index)
    IN  [i \in 1..Len(out) |-> Reversed(out)[i][2]]
        \o [i \in 1..Len(inc) |-> Reversed(inc)[i][1]]

\* The location's snapshot without its controller.
LocationSnapshot_without_control(g, index) ==
    [id |-> index,
     name |-> g.cities.nodes[index].name,
     base_income |-> g.cities.nodes[index].base_income,
     control |-> None,
     boost |-> g.cities.nodes[index].boost,
     pending_powerup |-> g.cities.nodes[index].pending_powerup,
     players |-> SelectSeq(RosterOrder(g), LAMBDA p : g.players[p].location = index),
     neighbors |-> neighbors(g, index)]

LocationSnapshot(g, index) ==
    [id |-> index,
     name |-> g.cities.nodes[index].name,
     base_income |-> g.cities.nodes[index].base_income,
     control |-> g.cities.nodes[index].control,
     boost |-> g.cities.nodes[index].boost,
     pending_powerup |-> g.cities.nodes[index].pending_powerup,
     players |-> SelectSeq(RosterOrder(g), LAMBDA p : g.players[p].location = index),
     neighbors |-> neighbors(g, index)]

PlayerSnapshot(player) ==
    [id |-> player.id, alive |-> player.alive, intel |-> player.intel,
     hidden_signals |-> player.hidden_signals,
     visible_violence |-> player.visible_violence,
     active_scan |-> player.active_scan, concealed |-> player.concealed,
     invisible |-> player.invisible, location |-> player.location]

snapshot(this) ==
    [active_player |-> this.active_player,
     default_location |-> this.default_location,
     locations |-> [i \in 1..Cardinality(DOMAIN this.game.cities.nodes) |->
                       LocationSnapshot(this.game, i - 1)],
     players |-> [i \in 1..NumPlayers(this.game) |->
                     PlayerSnapshot(this.game.players[i - 1])],
     log |-> this.log]

RECURSIVE MaxId(_)
MaxId(locations) ==
    IF locations = <<>> THEN 0
    ELSE LET rest == MaxId(Tail(locations))
         IN  IF Head(locations).id > rest THEN Head(locations).id ELSE rest

RECURSIVE InsertById(_, _)
\* The sorted list with one more location, behind those of the same id.
InsertById(sorted, location) ==
    IF sorted = <<>> THEN <<location>>
    ELSE IF Head(sorted).id <= location.id
    THEN <<Head(sorted)>> \o InsertById(Tail(sorted), location)
    ELSE <<location>> \o sorted

RECURSIVE SortById(_)
\* sort_by_key(|loc| loc.id): a stable sort.
SortById(locations) ==
    IF locations = <<>> THEN <<>>
    ELSE InsertById(SortById(SubSeq(locations, 1, Len(locations) - 1)),
                    locations[Len(locations)])

RECURSIVE LoadLocations(_, _)
\* The first loop of load_snapshot: the game and the mapping after the
\* locations given were added.
LoadLocations(acc, locations) ==
    IF locations = <<>> THEN acc
    ELSE LET location == Head(locations)
             added == add_location(acc.game, location.name, location.base_income)
         IN  LoadLocations(
                 [game |-> [added.game EXCEPT
                               !.cities.nodes[added.index].boost = location.boost,
                               !.cities.nodes[added.index].pending_powerup = location.pending_powerup,
                               !.cities.nodes[added.index].control = location.control],
                  mapping |-> [acc.mapping EXCEPT ![location.id] = added.index]],
                 Tail(locations))

RECURSIVE LoadNeighbors(_, _, _, _)
LoadNeighbors(g, mapping, from, neighbor_ids) ==
    IF neighbor_ids = <<>> THEN g
    ELSE LoadNeighbors(
             IF Head(neighbor_ids) < Cardinality(DOMAIN mapping)
             THEN connect_locations(g, from, mapping[Head(neighbor_ids)])
             ELSE g,
             mapping, from, Tail(neighbor_ids))

RECURSIVE LoadEdges(_, _, _)
\* The second loop: the edges, location by location in the snapshot's order.
LoadEdges(g, mapping, locations) ==
    IF locations = <<>> THEN g
    ELSE LoadEdges(LoadNeighbors(g, mapping, mapping[Head(locations).id],
                                 Head(locations).neighbors),
                   mapping, Tail(locations))

RECURSIVE LoadPlayers(_, _, _)
\* The third loop: each player is spawned and its fields installed.
LoadPlayers(g, mapping, players) ==
    IF players = <<>> THEN g
    ELSE LET player == Head(players)
             location == IF player.location < Cardinality(DOMAIN mapping)
                         THEN mapping[player.location] ELSE 0
             spawned == spawn_player(g, location)
         IN  LoadPlayers(
                 [spawned.game EXCEPT
                     !.players[spawned.id].alive = player.alive,
                     !.players[spawned.id].intel = player.intel,
                     !.players[spawned.id].hidden_signals = player.hidden_signals,
                     !.players[spawned.id].visible_violence = player.visible_violence,
                     !.players[spawned.id].active_scan = player.active_scan,
                     !.players[spawned.id].concealed = player.concealed,
                     !.players[spawned.id].invisible = player.invisible],
                 mapping, Tail(players))

\* min(a, b) and saturating_sub(a, 1) on usize.
Min(a, b) == IF a < b THEN a ELSE b

Pred(n) == IF n > 0 THEN n - 1 ELSE 0

\* The snapshot is a peer's, taken after that peer began the turn of its
\* active player: `begun` follows active_player.
load_snapshot(this, s) ==
    IF s.locations = <<>> THEN this
    ELSE LET located == LoadLocations(
                            [game |-> GameNew,
                             mapping |-> [i \in 0..MaxId(s.locations) |-> 0]],
                            SortById(s.locations))
             joined == LoadEdges(located.game, located.mapping, s.locations)
             new_game == LoadPlayers([joined EXCEPT !.players = <<>>],
                                     located.mapping, s.players)
         IN  [game |-> reset_event(new_game),
              active_player |-> Min(s.active_player, Pred(NumPlayers(new_game))),
              log |-> s.log,
              default_location |-> s.default_location,
              begun |-> Some(Min(s.active_player, Pred(NumPlayers(new_game))))]

\* WireMessage.
WireSnapshot(s) == [type |-> "Snapshot", snapshot |-> s]

WireAction(player, action) == [type |-> "Action", player |-> player, action |-> action]

WireEndTurn == [type |-> "EndTurn"]

WireReset == [type |-> "Reset"]

WireRequestSnapshot == [type |-> "RequestSnapshot"]

\* What a handler leaves: the app, the result it reports and the messages it
\* broadcast to the peers.
Handled(this, res, sent) == [this |-> this, res |-> res, sent |-> sent]

next_player(this) ==
    LET t == advance_turn(this)
    IN  Handled(t, "Ok", <<WireEndTurn, WireSnapshot(snapshot(t))>>)

apply_action(this, action) ==
    LET r == do_action(this.game, this.active_player, action)
    IN  IF r.res # "Ok" THEN Handled([this EXCEPT !.game = r.game], r.res, <<>>)
        ELSE LET t1 == record_events([this EXCEPT !.game = r.game])
                 t2 == [t1 EXCEPT !.game = reset_event(@)]
             IN  Handled(t2, "Ok",
                         <<WireAction(this.active_player, action),
                           WireSnapshot(snapshot(t2))>>)

reset_state(this, broadcast_it) ==
    LET m == setup_demo_map(GameNew)
        t == begin_turn([this EXCEPT !.game = m.game, !.log = <<>>,
                                     !.active_player = 0,
                                     !.default_location = m.default_location])
    IN  Handled(t, "Ok",
                IF broadcast_it THEN <<WireReset, WireSnapshot(snapshot(t))>>
                ELSE <<>>)

handle_wire_message(this, message) ==
    CASE message.type = "Snapshot" ->
            Handled(load_snapshot(this, message.snapshot), "Ok", <<>>)
      [] message.type = "Action" ->
            LET r == do_action(this.game, message.player, message.action)
            IN  IF r.res # "Ok"
                THEN Handled([this EXCEPT !.game = r.game], r.res, <<>>)
                ELSE LET t1 == record_events([this EXCEPT !.game = r.game])
                     IN  Handled([t1 EXCEPT !.game = reset_event(@),
                                            !.active_player = message.player],
                                 "Ok", <<>>)
      [] message.type = "EndTurn" -> Handled(advance_turn(this), "Ok", <<>>)
      [] message.type = "Reset" -> reset_state(this, FALSE)
      [] message.type = "RequestSnapshot" ->
            Handled(this, "Ok", <<WireSnapshot(snapshot(this))>>)

(***************************************************************************)
(* The app's behaviours.  It starts as DemoApp::new leaves it; the buttons *)
(* of the page and the messages of the peers are its events.  A peer's     *)
(* snapshot is one a DemoApp can produce: of the app as it is, of a fresh  *)
(* app, either with any active player the message can name, or one without *)
(* locations.                                                              *)
(***************************************************************************)
InitApp ==
    /\ game = DemoAppNew.game
    /\ app = Rest(DemoAppNew)
    /\ pre = game
    /\ last = [op |-> "new", pid |-> 0, action |-> Act("none", None), res |-> "Ok", msg |-> "none", was |-> app, sent |-> <<>>]
    /\ budget = MaxEvents
    /\ server = NoServer
    /\ network = NoNetwork

\* The actions a page or a peer can name in the game as it is.
Actions(g) ==
    {Act(k, None) : k \in {"Strike", "Wait", "Capture", "HideSignals", "Invisible", "Prepare", "Reveal"}}
    \cup {Act("Move", Some(to)) : to \in DOMAIN g.cities.nodes}
    \cup {Act("Reveal", Some(who)) : who \in DOMAIN g.players}

EmptySnapshot == [active_player |-> 0, default_location |-> 0, locations |-> <<>>, players |-> <<>>, log |-> <<>>]

Snapshots ==
    {[snapshot(t) EXCEPT !.active_player = a] :
        t \in {This, DemoAppNew}, a \in 0..NumPlayers(game)}
    \cup {EmptySnapshot}

\* One handler ran: the app it leaves and the record of the event.
Handle(op, pid, action, msg, h) ==
    /\ Ready
    /\ game' = h.this.game
    /\ app' = Rest(h.this)
    /\ pre' = game
    /\ last' = [op |-> op, pid |-> pid, action |-> action, res |-> h.res, msg |-> msg, was |-> app, sent |-> h.sent]
    /\ budget' = budget - 1
    /\ UNCHANGED <<server, network>>

ApplyAction ==
    \E action \in Actions(game) :
        Handle("apply_action", app.active_player, action, "none", apply_action(This, action))

NextPlayer ==
    /\ Handle("next_player", (app.active_player + 1) % NumPlayers(game), Act("none", None), "none", next_player(This))

ResetState ==
    /\ Handle("reset_state", 0, Act("none", None), "none", reset_state(This, TRUE))

ReceiveSnapshot ==
    \E s \in Snapshots :
        Handle("handle_wire_message", Min(s.active_player, Pred(Len(s.players))), Act("none", None), "Snapshot", handle_wire_message(This, WireSnapshot(s)))

ReceiveAction ==
    \E player \in DOMAIN game.players, action \in Actions(game) :
        Handle("handle_wire_message", player, action, "Action", handle_wire_message(This, WireAction(player, action)))

ReceiveEndTurn ==
    /\ Handle("handle_wire_message", (app.active_player + 1) % NumPlayers(game), Act("none", None), "EndTurn", handle_wire_message(This, WireEndTurn))

ReceiveReset ==
    /\ Handle("handle_wire_message", 0, Act("none", None), "Reset", handle_wire_message(This, WireReset))

ReceiveRequestSnapshot ==
    /\ Handle("handle_wire_message", app.active_player, Act("none", None), "RequestSnapshot", handle_wire_message(This, WireRequestSnapshot))

NextApp ==
    \/ ApplyAction
    \/ NextPlayer
    \/ ResetState
    \/ ReceiveSnapshot
    \/ ReceiveAction
    \/ ReceiveEndTurn
    \/ ReceiveReset
    \/ ReceiveRequestSnapshot

SpecApp == InitApp /\ [][NextApp]_vars

(***************************************************************************)
(* Vocabulary of the app's properties: the engine call the last handler    *)
(* made and the lines the log gained.                                      *)
(***************************************************************************)
ActedInApp ==
    /\ last.res = "Ok"
    /\ \/ last.op = "apply_action"
       \/ last.op = "handle_wire_message" /\ last.msg = "Action"

BeganTurn ==
    \/ last.op = "next_player"
    \/ last.op = "handle_wire_message" /\ last.msg = "EndTurn"

WasReset ==
    \/ last.op = "reset_state"
    \/ last.op = "handle_wire_message" /\ last.msg = "Reset"

\* The game as the engine call of the last handler left it, before the reset.
Produced ==
    IF ActedInApp THEN do_action(pre, last.pid, last.action).game
    ELSE IF BeganTurn THEN start_turn(pre, last.pid)
    ELSE start_turn(setup_demo_map(GameNew).game, 0)

LoggedLines == IF WasReset THEN app.log ELSE Added(last.was.log, app.log)

\* How often a line stands in the lines logged, and how many of the
\* observations produced read as that line.
TimesLogged(line) ==
    Cardinality({i \in 1..Len(LoggedLines) : LoggedLines[i] = line})

TimesProduced(line) ==
    Cardinality({i \in 1..Len(Public(Produced)) :
                    describe(Public(Produced)[i]) = line})
    + Cardinality(UNION {{<<p, i>> : i \in {j \in 1..Len(Private(Produced, p)) :
                                  describe_private(p, Private(Produced, p)[j]) = line}} :
                         p \in DOMAIN Produced.players})

ProducedLines ==
    {describe(Public(Produced)[i]) : i \in 1..Len(Public(Produced))}
    \cup UNION {{describe_private(p, Private(Produced, p)[i]) :
                    i \in 1..Len(Private(Produced, p))} :
                p \in DOMAIN Produced.players}

LedgerEmpty ==
    /\ Len(Public(game)) = 0
    /\ \A p \in DOMAIN game.players \cup DOMAIN game.event.private_observations :
           Len(Private(game, p)) = 0

(***************************************************************************)
(* C27.  In the DemoApp the ledger is empty after every handler (the       *)
(* construction, begin_turn, apply_action, handle_wire_message and         *)
(* load_snapshot), and the lines the log gains in a handler that called    *)
(* start_turn or a successful do_action, local or remote, are the          *)
(* observations that call produced, each logged exactly once: every line   *)
(* stands in the log as often as observations read as it, and a handler    *)
(* whose action failed logs nothing.                                       *)
(***************************************************************************)
C27_EveryObservationLoggedOnce ==
    /\ LedgerEmpty
    /\ ActedInApp \/ BeganTurn \/ WasReset =>
           /\ \A line \in ProducedLines \cup {LoggedLines[i] : i \in 1..Len(LoggedLines)} :
                  TimesLogged(line) = TimesProduced(line)
           /\ ~WasReset => Len(app.log) >= Len(last.was.log)
                           /\ SubSeq(app.log, 1, Len(last.was.log)) = last.was.log
    /\ last.op \in {"apply_action", "handle_wire_message"} /\ last.res \notin {"Ok"} =>
           app.log = last.was.log

\* A remote action whose observations, public and private, were logged.
C27_Witness ==
    /\ last.op = "handle_wire_message" /\ last.msg = "Action"
    /\ last.res = "Ok"
    /\ Len(Public(Produced)) > 0
    /\ \E p \in DOMAIN Produced.players : Len(Private(Produced, p)) > 0
    /\ Len(app.log) > Len(last.was.log)
    /\ LedgerEmpty

(***************************************************************************)
(* C28.  In the DemoApp the active player is always the player the latest  *)
(* start_turn was called for (start_turn(p) is called once when p's turn   *)
(* begins), and every do_action applied to the game for p, entered on the  *)
(* page or received as a remote Action message, is applied while the turn  *)
(* begun is p's: after start_turn(p) and before the next start_turn.       *)
(***************************************************************************)
C28_ActionsWithinTheTurnBegun ==
    /\ app.begun = Some(app.active_player)
    /\ ActedInApp => last.was.begun = Some(last.pid)

(***************************************************************************)
(* The HTTP server (src/src/server.rs): one game of State.games, its       *)
(* players and their channels.  The server was written against a library   *)
(* whose actions return their observations with the recipients             *)
(* (Vec<(Option<PlayerId>, Observation)>) and whose Game records them per  *)
(* player in `updates`; what an action returns is an input here.  A        *)
(* request is served by one of the workers; between two steps of a request *)
(* the other worker may run.  `server` holds                               *)
(*   guard         the worker holding the Mutex<State>, if any             *)
(*   game_lock     the worker holding the game's Mutex<Game>, if any       *)
(*   updates       game.updates: per player the observations recorded      *)
(*   pid_channels  per player whether a channel is attached                *)
(*   sent          per player the Upd(seqno, observation) its channels got *)
(*   reqs          per worker the request it serves and where it stands    *)
(* The players are numbered from 0 and player p is at position p + 1 of    *)
(* the three lists.  `last` is the last step made.                         *)
(***************************************************************************)
MaxRequests == 2

Workers == {1, 2}

\* The bodies of do_action whose updates are distributed.
Distributed == {"strike", "wait", "capture", "hide_signals", "invisible", "prepare"}

Bodies == Distributed \cup {"move", "reveal", "other"}

\* The arm of do_action's match that a body selects.
Arm(body) == IF body \in Distributed THEN "distribute" ELSE body

\* The nth observation the library returned for an action of pid.
Notice(pid, nth) == [by |-> pid, nth |-> nth]

\* A worker with no request.  Of a request the worker keeps, besides its
\* place (pc): the updates still to distribute (todo), the next player of an
\* update for everyone (pl), the number and the recipient of the update
\* being sent, and, as history, the updates the action returned and how
\* many were recorded per player before them.
Idle == [kind |-> "none", pid |-> 0, arm |-> "none", pc |-> "idle", upds |-> <<>>, todo |-> <<>>, pl |-> 0, seqno |-> 0, to |-> 0, base |-> <<>>]

NumJoined(s) == Len(s.updates)

\* GameState after join_game was served for each of the channels given.
JoinedGame(channels) ==
    [guard |-> None, game_lock |-> None,
     updates |-> [i \in 1..Len(channels) |-> <<>>],
     pid_channels |-> channels,
     sent |-> [i \in 1..Len(channels) |-> <<>>],
     reqs |-> [w \in Workers |-> Idle]]

\* Two players have joined; the first has attached its channel.
InitServer ==
    /\ server = JoinedGame(<<TRUE, FALSE>>)
    /\ last = [op |-> "none", pid |-> 0, action |-> Act("none", None), res |-> "none", worker |-> 0, seqno |-> 0]
    /\ budget = MaxRequests
    /\ game = GameNew
    /\ pre = game
    /\ app = NoApp
    /\ network = NoNetwork

\* What the library may return for an action of pid: no update, one for
\* everyone, one for a single player, or one for a single player followed by
\* one for everyone.
UpdateLists(s, pid) ==
    {<<>>, << <<None, Notice(pid, 1)>> >>}
    \cup {<< <<Some(q), Notice(pid, 1)>> >> : q \in 0..NumJoined(s) - 1}
    \cup {<< <<Some(q), Notice(pid, 1)>>, <<None, Notice(pid, 2)>> >> :
             q \in 0..NumJoined(s) - 1}

\* Mutex::lock that never waits for the holder.
CanLock_never_waits(holder) == TRUE

\* Mutex::lock returns once no one holds the mutex.
CanLock(holder) == holder = None

\* The sequence number that counts the updates delivered, not those recorded.
seqno_of_delivered(s, pl) == Len(s.sent[pl + 1])

\* `let seqno = game.updates[pid].len();`
seqno_of(s, pl) == Len(s.updates[pl + 1])

\* One step of worker w: the server after it and the record of the step.
Step(w, op, s, to, seqno) ==
    /\ server' = s
    /\ last' = [op |-> op, pid |-> to, action |-> Act("none", None), res |-> "Ok", worker |-> w, seqno |-> seqno]
    /\ UNCHANGED <<game, pre, app, network>>

\* A request arrives and its handler runs up to `state.lock()`.
Arrive ==
    \E w \in Workers, kind \in {"do_action", "join_game", "event_stream"}, pid \in 0..NumJoined(server) - 1, body \in Bodies :
        /\ Ready
        /\ server.reqs[w].pc = "idle"
        /\ kind # "do_action" => body = "other"
        /\ kind = "join_game" => pid = 0
        /\ budget' = budget - 1
        /\ Step(w, "arrive", [server EXCEPT !.reqs[w] = [Idle EXCEPT !.kind = kind, !.pid = pid, !.arm = IF kind = "do_action" THEN Arm(body) ELSE "none", !.pc = "lock"]], pid, 0)

\* `state.lock()`.
LockState ==
    \E w \in Workers :
        /\ server.reqs[w].pc = "lock"
        /\ CanLock(server.guard)
        /\ UNCHANGED budget
        /\ Step(w, "lock", [server EXCEPT !.guard = Some(w), !.reqs[w].pc = "in"], server.reqs[w].pid, 0)

\* do_action: `gs.game.lock().strike(pid)` and the like.  The game's lock is
\* taken for the call and released after it; the body that names no action
\* is refused without a call.
EngineCall ==
    \E w \in Workers :
        LET r == server.reqs[w]
        IN  /\ r.kind = "do_action" /\ r.pc = "in"
            /\ r.arm = "other" \/ CanLock(server.game_lock)
            /\ UNCHANGED budget
            /\ IF r.arm = "distribute"
               THEN \E upds \in UpdateLists(server, r.pid) :
                        Step(w, "engine", [server EXCEPT !.reqs[w].pc = "called", !.reqs[w].upds = upds, !.reqs[w].todo = upds, !.reqs[w].base = [i \in 1..NumJoined(server) |-> Len(server.updates[i])]], r.pid, 0)
               ELSE Step(w, IF r.arm = "other" THEN "refuse" ELSE "engine", [server EXCEPT !.reqs[w].pc = "out"], r.pid, 0)

\* distribute_updates: `let mut game = gs.game.lock();`
LockGame ==
    \E w \in Workers :
        /\ server.reqs[w].pc = "called"
        /\ CanLock(server.game_lock)
        /\ UNCHANGED budget
        /\ Step(w, "lock_game", [server EXCEPT !.game_lock = Some(w), !.reqs[w].pc = "distribute"], server.reqs[w].pid, 0)

\* The server after the update `obs` was recorded for player pl by worker w,
\* which goes on to send it if pl has a channel.
Recorded(s, w, pl, obs) ==
    [s EXCEPT !.updates[pl + 1] = Append(@, obs),
              !.reqs[w].seqno = seqno_of(s, pl),
              !.reqs[w].to = pl,
              !.reqs[w].pc = IF s.pid_channels[pl + 1] THEN "send" ELSE "distribute"]

\* distribute_updates: one update for one player is given its number and
\* recorded.  An update without a recipient goes to the players in turn.
Record ==
    \E w \in Workers :
        LET r == server.reqs[w]
            upd == Head(r.todo)
        IN  /\ r.pc = "distribute" /\ r.todo # <<>>
            /\ UNCHANGED budget
            /\ IF upd[1] # None
               THEN Step(w, "record", [Recorded(server, w, upd[1][1], upd[2]) EXCEPT !.reqs[w].todo = Tail(@)], upd[1][1], seqno_of(server, upd[1][1]))
               ELSE IF r.pl < NumJoined(server)
               THEN Step(w, "record", [Recorded(server, w, r.pl, upd[2]) EXCEPT !.reqs[w].pl = @ + 1], r.pl, seqno_of(server, r.pl))
               ELSE Step(w, "next", [server EXCEPT !.reqs[w].todo = Tail(@), !.reqs[w].pl = 0], r.pid, 0)

\* `tx.send(Upd(seqno, upd)).await`: the channel takes the message, or it is
\* gone and the server forgets it.
Send ==
    \E w \in Workers, ok \in BOOLEAN :
        LET r == server.reqs[w]
        IN  /\ r.pc = "send"
            /\ UNCHANGED budget
            /\ IF ok
               THEN Step(w, "send", [server EXCEPT !.sent[r.to + 1] = Append(@, <<r.seqno, server.updates[r.to + 1][r.seqno + 1]>>), !.reqs[w].pc = "distribute"], r.to, r.seqno)
               ELSE Step(w, "send_failed", [server EXCEPT !.pid_channels[r.to + 1] = FALSE, !.reqs[w].pc = "distribute"], r.to, r.seqno)

\* The end of the do_action handler: the guards are dropped.
Return ==
    \E w \in Workers :
        LET r == server.reqs[w]
        IN  /\ r.pc = "out" \/ (r.pc = "distribute" /\ r.todo = <<>>)
            /\ UNCHANGED budget
            /\ Step(w, "return", [server EXCEPT !.guard = IF @ = Some(w) THEN None ELSE @, !.game_lock = IF @ = Some(w) THEN None ELSE @, !.reqs[w] = Idle], r.pid, 0)

\* join_game, under the state lock and the game's lock.
JoinGame ==
    \E w \in Workers :
        LET r == server.reqs[w]
        IN  /\ r.kind = "join_game" /\ r.pc = "in"
            /\ CanLock(server.game_lock)
            /\ UNCHANGED budget
            /\ Step(w, "join_game", [server EXCEPT !.pid_channels = Append(@, FALSE), !.updates = Append(@, <<>>), !.sent = Append(@, <<>>), !.guard = IF @ = Some(w) THEN None ELSE @, !.reqs[w] = Idle], NumJoined(server), 0)

\* event_stream: the channel of pid is attached, under the state lock.
EventStream ==
    \E w \in Workers :
        LET r == server.reqs[w]
        IN  /\ r.kind = "event_stream" /\ r.pc = "in"
            /\ UNCHANGED budget
            /\ Step(w, "event_stream", [server EXCEPT !.pid_channels = IF r.pid < Len(@) THEN [@ EXCEPT ![r.pid + 1] = TRUE] ELSE @, !.guard = IF @ = Some(w) THEN None ELSE @, !.reqs[w] = Idle], r.pid, 0)

NextServer ==
    \/ Arrive
    \/ LockState
    \/ EngineCall
    \/ LockGame
    \/ Record
    \/ Send
    \/ Return
    \/ JoinGame
    \/ EventStream

SpecServer == InitServer /\ [][NextServer]_vars

(***************************************************************************)
(* Vocabulary of the server's properties.                                  *)
(***************************************************************************)
\* How many of the updates an action returned are for player pl: those
\* addressed to pl and those without a recipient.
UpdatesFor(upds, pl) ==
    Cardinality({k \in 1..Len(upds) : upds[k][1] = None \/ upds[k][1] = Some(pl)})

\* The worker's request has called the action and has not yet recorded and
\* sent all of its updates.
MidAction(w) ==
    /\ server.reqs[w].kind = "do_action"
    /\ \/ server.reqs[w].pc \in {"called", "send"}
       \/ server.reqs[w].pc = "distribute" /\ server.reqs[w].todo # <<>>

\* The last step read or wrote the game.
TouchedGame == last.op \in {"engine", "record", "next", "join_game"}

(***************************************************************************)
(* C29.  In distribute_updates the number given to an update for a player  *)
(* is the number of updates recorded for that player before it, whether or *)
(* not the player has a channel, so the numbers a player's channels        *)
(* receive increase strictly, request after request, and each is the       *)
(* position of its update among those recorded; and once an action's       *)
(* updates are distributed, every player has one more recorded update for  *)
(* each update addressed to it and one for each update without a           *)
(* recipient.                                                              *)
(***************************************************************************)
C29_SequenceNumbersCountRecorded ==
    /\ last.op = "record" =>
           last.seqno = Len(server.updates[last.pid + 1]) - 1
    /\ \A w \in Workers :
           server.reqs[w].pc = "send" =>
               server.reqs[w].seqno = Len(server.updates[server.reqs[w].to + 1]) - 1
    /\ \A p \in 1..NumJoined(server) :
           \A j \in 1..Len(server.sent[p]) :
               /\ server.sent[p][j][1] >= 0
               /\ server.sent[p][j][1] < Len(server.updates[p])
               /\ server.updates[p][server.sent[p][j][1] + 1] = server.sent[p][j][2]
               /\ j > 1 => server.sent[p][j - 1][1] < server.sent[p][j][1]
    /\ \A w \in Workers :
           server.reqs[w].pc = "distribute" /\ server.reqs[w].todo = <<>> =>
               \A p \in 1..NumJoined(server) :
                   Len(server.updates[p]) =
                       server.reqs[w].base[p] + UpdatesFor(server.reqs[w].upds, p - 1)

\* An update without a recipient recorded for a player that has no channel
\* and has updates of an earlier request.
C29_Witness ==
    /\ last.op = "record"
    /\ last.seqno >= 1
    /\ server.reqs[last.worker].pl > 0
    /\ ~server.pid_channels[last.pid + 1]
    /\ server.reqs[last.worker].base[last.pid + 1] >= 1

(***************************************************************************)
(* C30.  Requests against the game do not interleave: while a do_action    *)
(* request is between its action and the end of the distribution of that   *)
(* action's updates, every other request is either not yet started or      *)
(* waiting for the state lock, and no step of another request (an action,  *)
(* the recording of an update, a join) reads or writes the game.           *)
(***************************************************************************)
C30_RequestsDoNotInterleave ==
    /\ \A w1, w2 \in Workers :
           w1 # w2 /\ MidAction(w1) => server.reqs[w2].pc \in {"idle", "lock"}
    /\ TouchedGame =>
           \A w \in Workers \ {last.worker} : ~MidAction(w)

\* One request is sending an update while a second do_action waits.
C30_Witness ==
    \E w1, w2 \in Workers :
        /\ w1 # w2
        /\ server.reqs[w1].pc = "send"
        /\ server.reqs[w2].kind = "do_action"
        /\ server.reqs[w2].pc = "lock"

(***************************************************************************)
(* C31.  The alive flag is monotone.  Stated call by call along a run of   *)
(* do_action, start_turn, spawn_player and reset_event: a player who was   *)
(* not alive before a call is not alive after it, and a Strike leaves the  *)
(* striker's own alive flag as it was.                                     *)
(***************************************************************************)
C31_DeadStayDead ==
    /\ \A p \in DOMAIN pre.players :
           ~pre.players[p].alive => ~game.players[p].alive
    /\ Acted("Strike") =>
           game.players[last.pid].alive = pre.players[last.pid].alive

\* The turn of a player killed earlier in the run starts: it stays dead.
C31_Witness ==
    /\ last.op = "start_turn"
    /\ ~pre.players[last.pid].alive
    /\ ~game.players[last.pid].alive
    /\ budget < MaxCalls - 1

(***************************************************************************)
(* Vocabulary: the game with one flag of a player set as given, and two    *)
(* games that hold the same ledger.                                        *)
(***************************************************************************)
WithAlive(g, pid, alive) == [g EXCEPT !.players[pid].alive = alive]

SameQueue(a, b) ==
    /\ Len(a) = Len(b)
    /\ \A i \in 1..Len(a) : i <= Len(b) => Same(a[i], b[i])

SameLedger(g, h) ==
    /\ SameQueue(Public(g), Public(h))
    /\ \A p \in DOMAIN g.players \cup DOMAIN h.players :
           SameQueue(Private(g, p), Private(h, p))

\* The call made, applied to the game given: the game it leaves and the
\* result.
Outcome(g) ==
    IF last.op = "do_action" THEN do_action(g, last.pid, last.action)
    ELSE [game |-> start_turn(g, last.pid), res |-> "Ok"]

(***************************************************************************)
(* C32.  do_action and start_turn never consult the acting player's alive  *)
(* flag: the call made has the same result, the same observations and the  *)
(* same effect on the board and on every player, the actor's alive flag    *)
(* apart, whether the actor is alive or not.                               *)
(***************************************************************************)
C32_TheDeadActAsTheLiving ==
    (last.op = "do_action" \/ (last.op = "start_turn" /\ last.res = "Ok")) =>
        LET living == Outcome(WithAlive(pre, last.pid, TRUE))
            dead == Outcome(WithAlive(pre, last.pid, FALSE))
        IN  /\ living.res = last.res
            /\ dead.res = last.res
            /\ SameLedger(living.game, dead.game)
            /\ SameLedger(game, dead.game)
            /\ living.game.cities = dead.game.cities
            /\ game.cities = dead.game.cities
            /\ dead.game.players = WithAlive(living.game, last.pid, FALSE).players
            /\ game.players[last.pid].alive = pre.players[last.pid].alive
            /\ WithAlive(game, last.pid, FALSE).players = dead.game.players

\* A player who is not alive strikes and kills.
C32_Witness ==
    /\ Acted("Strike")
    /\ ~pre.players[last.pid].alive
    /\ \E q \in DOMAIN pre.players :
           pre.players[q].alive /\ ~game.players[q].alive

(***************************************************************************)
(* C33.  hidden_signals is permanent.  Along a run that starts with no     *)
(* flag set, so that a set flag is one a HideSignals bought: a flag set    *)
(* before a call is set after it, whatever the call; a HideSignals by a    *)
(* player whose flag is set fails with WouldNoop; and every intel-spend    *)
(* notice a player whose flag is set adds has no kind.                     *)
(***************************************************************************)
C33_HiddenSignalsStay ==
    /\ \A p \in DOMAIN pre.players :
           pre.players[p].hidden_signals => game.players[p].hidden_signals
    /\ Acted("HideSignals") /\ pre.players[last.pid].hidden_signals =>
           last.res = "WouldNoop"
    /\ last.op = "do_action" /\ pre.players[last.pid].hidden_signals =>
           \A i \in 1..Len(AddedPublic) :
               AddedPublic[i].type = "Intel" => AddedPublic[i].kind = None

\* After HideSignals and the player's own start_turn, a Prepare of that
\* player is announced without its kind.
C33_Witness ==
    /\ Acted("Prepare")
    /\ pre.players[last.pid].hidden_signals
    /\ Len(AddedPublic) = 1
    /\ Same(AddedPublic[1], Intel(Some(last.pid), None))
    /\ budget = 0

(***************************************************************************)
(* C34.  A successful HideSignals adds one intel-spend notice, which names *)
(* the actor and the kind HideSignals, and leaves the flag set.            *)
(***************************************************************************)
C34_HideSignalsAnnouncesItself ==
    Acted("HideSignals") /\ last.res = "Ok" =>
        /\ Len(AddedPublic) = 1
        /\ Same(AddedPublic[1], Intel(Some(last.pid), Some("HideSignals")))
        /\ game.players[last.pid].hidden_signals

C34_Witness ==
    /\ Acted("HideSignals")
    /\ last.res = "Ok"
    /\ ~pre.players[last.pid].hidden_signals
    /\ game.players[last.pid].hidden_signals
    /\ Len(AddedPublic) = 1

(***************************************************************************)
(* C35.  A player's intel changes only through that player's own           *)
(* successful HideSignals, Invisible or Reveal (down by the cost) or that  *)
(* player's own start_turn (up by the income).  Strike, Wait, Capture,     *)
(* Move and Prepare by anyone, a failed action, every call of another      *)
(* player and every call that builds or resets leave it as it was.         *)
(***************************************************************************)
C35_IntelFrame ==
    \A p \in DOMAIN pre.players :
        LET old == pre.players[p].intel
            new == game.players[p].intel
        IN  /\ last.op \notin {"do_action", "start_turn"} => new = old
            /\ p # last.pid => new = old
            /\ last.op = "do_action" /\ last.res # "Ok" => new = old
            /\ last.op = "do_action" /\ last.action.kind \in {"Strike", "Wait", "Capture", "Move", "Prepare"} => new = old
            /\ last.op = "do_action" /\ new # old =>
                   /\ last.action.kind \in {"HideSignals", "Invisible", "Reveal"}
                   /\ new = old - Price(last.action.kind)
            /\ last.op = "start_turn" /\ p = last.pid =>
                   new = old + PaysBelow(pre, Cardinality(DOMAIN pre.cities.nodes), p) + BonusHere(pre, p)

\* A Capture beside a player who holds intel: no balance changes.
C35_Witness ==
    /\ Acted("Capture")
    /\ \E q \in DOMAIN pre.players :
           q # last.pid /\ pre.players[q].intel > 0
    /\ pre.players[last.pid].intel > 0
    /\ \A q \in DOMAIN pre.players :
           game.players[q].intel = pre.players[q].intel

(***************************************************************************)
(* Vocabulary: the lookup of the player's location that start_turn         *)
(* (`expect("moved OOB")`) and capture (`unwrap()`) make finds no node.    *)
(***************************************************************************)
LookupAborts(g, pid) == g.players[pid].location \notin DOMAIN g.cities.nodes

(***************************************************************************)
(* C36.  Players spawned at existing locations stay on the board: after    *)
(* any sequence of do_action and start_turn, a Move to an index beyond the *)
(* board among them, every player's location is an existing location, and *)
(* no start_turn and no Capture is made by a player whose lookup aborts.   *)
(***************************************************************************)
C36_PlayersStayOnTheBoard ==
    /\ \A p \in DOMAIN game.players : ~LookupAborts(game, p)
    /\ last.op = "start_turn" \/ Acted("Capture") => ~LookupAborts(pre, last.pid)
    /\ Acted("Move") /\ last.res = "Ok" =>
           /\ last.action.arg[1] \in DOMAIN pre.cities.nodes
           /\ game.players[last.pid].location = last.action.arg[1]
    /\ Acted("Move") /\ last.res # "Ok" =>
           game.players[last.pid].location = pre.players[last.pid].location

\* A Move to the first index beyond the board fails and leaves the player
\* where it stood.
C36_Witness ==
    /\ Acted("Move")
    /\ last.action.arg[1] \notin DOMAIN pre.cities.nodes
    /\ last.res = "WouldNoop"
    /\ game.players[last.pid].location = pre.players[last.pid].location

(***************************************************************************)
(* Vocabulary: the game with the concealed flags set as `flags` gives them *)
(* player by player, and the players of a game without their concealed     *)
(* flags.                                                                  *)
(***************************************************************************)
WithConcealed(g, flags) ==
    [g EXCEPT !.players =
        [i \in DOMAIN g.players |-> [g.players[i] EXCEPT !.concealed = flags[i]]]]

Unconcealed(g) == WithConcealed(g, [i \in DOMAIN g.players |-> FALSE]).players

(***************************************************************************)
(* C37.  concealed is never set and never read by the engine: no do_action *)
(* and no start_turn leaves a player concealed who was not, and the call   *)
(* made has the same result, the same observations and the same effect on  *)
(* everything but the concealed flags whatever those flags are.            *)
(***************************************************************************)
C37_ConcealedIsInert ==
    Appending /\ last.res # "Panic" =>
        /\ \A p \in DOMAIN pre.players :
               game.players[p].concealed => pre.players[p].concealed
        /\ \A flags \in [DOMAIN pre.players -> BOOLEAN] :
               LET other == Outcome(WithConcealed(pre, flags))
               IN  /\ other.res = last.res
                   /\ SameLedger(other.game, game)
                   /\ other.game.cities = game.cities
                   /\ Unconcealed(other.game) = Unconcealed(game)

\* A start_turn reveals a concealed player to the one whose turn starts.
C37_Witness ==
    /\ last.op = "start_turn"
    /\ \E q \in DOMAIN pre.players :
           /\ q # last.pid
           /\ pre.players[q].concealed
           /\ Count(AddedPrivate(last.pid), Reveal(q, pre.players[q].location)) = 1
    /\ last.res = "Ok"

(***************************************************************************)
(* The snapshot round trip.  The app holds the demo map, or what it        *)
(* installed from a Snapshot message: the fields of a message are the      *)
(* sender's to choose, and its locations come in index order or the other  *)
(* way round.  The page plays at most MaxPlays events; at any moment the   *)
(* app's own snapshot is loaded back into it.                              *)
(***************************************************************************)
MaxPlays == 1

PeerLocations ==
    {Board([c \in Locations |-> None]),
     [Board((Alpha :> Some(0)) @@ (Bravo :> None) @@ (Charlie :> Some(2)))
         EXCEPT !.nodes[Bravo].boost = TRUE,
                !.edges = @ \o << <<Charlie, Alpha>> >>],
     [Board((Alpha :> Some(1)) @@ (Bravo :> Some(1)) @@ (Charlie :> Some(0)))
         EXCEPT !.nodes[Alpha].boost = TRUE,
                !.nodes[Charlie].pending_powerup = Some(1),
                !.edges = @ \o << <<Bravo, Bravo>>, <<Charlie, Bravo>> >>]}

PeerFlags == {"hidden_signals", "visible_violence", "active_scan", "concealed", "invisible"}

PeerRosters ==
    {[p \in PlayerIds |->
        Player(p, (p + special) % Cardinality(Locations), p # special,
               IF p = special THEN 0 ELSE p + 1,
               p = flagged /\ flag = "hidden_signals",
               p = flagged /\ flag = "visible_violence",
               p = flagged /\ flag = "active_scan",
               p = flagged /\ flag = "concealed",
               p = flagged /\ flag = "invisible")] :
     special \in PlayerIds, flagged \in PlayerIds, flag \in PeerFlags}

\* The messages: the snapshot of a peer that holds such a game, as it is or
\* with its locations listed the other way round.
PeerSnapshots ==
    {LET s == snapshot([game |-> [cities |-> cities, players |-> roster, event |-> EventDefault],
                        active_player |-> active, log |-> IF active = 0 THEN <<>> ELSE <<"Player 0 waits">>,
                        default_location |-> Alpha, begun |-> Some(active)])
     IN  [s EXCEPT !.locations = IF active = 0 THEN @ ELSE Reversed(@)] :
     cities \in PeerLocations, roster \in PeerRosters, active \in {0, 2}}

InitSnapshot ==
    /\ \E t \in {DemoAppNew} \cup {load_snapshot(DemoAppNew, s) : s \in PeerSnapshots} :
           /\ game = t.game
           /\ app = Rest(t)
    /\ pre = game
    /\ last = [op |-> "new", pid |-> 0, action |-> Act("none", None), res |-> "Ok", msg |-> "none", was |-> app, sent |-> <<>>]
    /\ budget = MaxPlays
    /\ server = NoServer
    /\ network = NoNetwork

\* load_snapshot(snapshot()).
Reload ==
    LET t == load_snapshot(This, snapshot(This))
    IN  /\ game' = t.game
        /\ app' = Rest(t)
        /\ pre' = game
        /\ last' = [op |-> "load_snapshot", pid |-> app.active_player, action |-> Act("none", None), res |-> "Ok", msg |-> "none", was |-> app, sent |-> <<>>]
        /\ UNCHANGED <<budget, server, network>>

NextSnapshot ==
    \/ ApplyAction
    \/ NextPlayer
    \/ Reload

SpecSnapshot == InitSnapshot /\ [][NextSnapshot]_vars

(***************************************************************************)
(* Vocabulary: the edges of a game as a set of unordered pairs, and what   *)
(* the claim lists of a location.                                          *)
(***************************************************************************)
EdgeSet(g) == {{g.cities.edges[i][1], g.cities.edges[i][2]} : i \in 1..Len(g.cities.edges)}

Listed(location) ==
    <<location.name, location.base_income, location.control, location.boost,
      location.pending_powerup>>

(***************************************************************************)
(* C38.  load_snapshot(snapshot()) of a game with at least one location    *)
(* leaves the same locations (name, income, controller, boost, pending     *)
(* bonus), the same set of edges, the same players (id, alive, intel, the  *)
(* five flags, location), the same active player and log, and an empty     *)
(* ledger.                                                                 *)
(***************************************************************************)
C38_SnapshotRoundTrip ==
    last.op = "load_snapshot" /\ DOMAIN pre.cities.nodes # {} =>
        /\ DOMAIN game.cities.nodes = DOMAIN pre.cities.nodes
        /\ \A c \in DOMAIN pre.cities.nodes :
               Listed(game.cities.nodes[c]) = Listed(pre.cities.nodes[c])
        /\ EdgeSet(game) = EdgeSet(pre)
        /\ game.players = pre.players
        /\ app.active_player = last.was.active_player
        /\ app.log = last.was.log
        /\ LedgerEmpty

\* A game with a controlled and a boosted location, a dead player and a
\* log comes back with its edges in another order.
C38_Witness ==
    /\ last.op = "load_snapshot"
    /\ game.cities.edges # pre.cities.edges
    /\ EdgeSet(game) = EdgeSet(pre)
    /\ \E c \in DOMAIN pre.cities.nodes :
           pre.cities.nodes[c].boost /\ game.cities.nodes[c].control # None
    /\ \E p \in DOMAIN pre.players : ~game.players[p].alive
    /\ Len(app.log) > 0

(***************************************************************************)
(* Two peers.  Side 1 is the app of `game` and `app`, side 2 the app kept  *)
(* in network.remote; network.peers[s] says whether side s registered the  *)
(* connection, network.streams[s] holds the messages on their way to side  *)
(* s.  send_async spawns a task per message and send_message opens a       *)
(* stream per message: the reader of the other side meets them in any      *)
(* order.  `last` keeps, beside the event, whether the peers were in sync  *)
(* when the page last acted (`local`), whether the page has not acted      *)
(* since a side registered (`quiet`), and the number of messages sent.     *)
(***************************************************************************)
MaxLocal == 1

Sides == {1, 2}

Other(s) == 3 - s

AppOf(s) == IF s = 1 THEN This ELSE network.remote

\* The button pressed, on the page of side 1: side 2 runs the same code and
\* is met through its messages.
LocalActions == {Act("Reveal", None)}

InitPeers ==
    /\ game = DemoAppNew.game
    /\ app = Rest(DemoAppNew)
    /\ network = [remote |-> DemoAppNew, peers |-> <<FALSE, FALSE>>, streams |-> << <<>>, <<>> >>]
    /\ pre = game
    /\ last = [op |-> "new", pid |-> 0, action |-> Act("none", None), res |-> "Ok", msg |-> "none", local |-> "none", quiet |-> TRUE, sent |-> 0]
    /\ budget = MaxLocal
    /\ server = NoServer

\* seq without its i-th element; seq itself when i = 0.
Without(seq, i) == [j \in 1..(Len(seq) - (IF i = 0 THEN 0 ELSE 1)) |-> IF i = 0 \/ j < i THEN seq[j] ELSE seq[j + 1]]

\* Two games that agree in what a snapshot carries.
SameGameState(g, h) ==
    /\ DOMAIN g.cities.nodes = DOMAIN h.cities.nodes
    /\ \A c \in DOMAIN g.cities.nodes \cap DOMAIN h.cities.nodes :
           Listed(g.cities.nodes[c]) = Listed(h.cities.nodes[c])
    /\ EdgeSet(g) = EdgeSet(h)
    /\ g.players = h.players

Connected == network.peers[1] /\ network.peers[2]

Delivered == network.streams[1] = <<>> /\ network.streams[2] = <<>>

InSync ==
    /\ Connected
    /\ Delivered
    /\ SameGameState(game, network.remote.game)
    /\ app.active_player = network.remote.active_player

\* Side s ran a handler: it read the stream `taken` (0: none), is left as
\* h.this and sent h.sent to the peer it has registered.
Ran(s, h, taken, peers, event) ==
    LET out == IF peers[s] THEN h.sent ELSE <<>>
        read == [network.streams EXCEPT ![s] = Without(@, taken)]
    IN  /\ game' = IF s = 1 THEN h.this.game ELSE game
        /\ app' = IF s = 1 THEN Rest(h.this) ELSE app
        /\ network' = [remote |-> IF s = 2 THEN h.this ELSE network.remote,
                       peers |-> peers,
                       streams |-> [read EXCEPT ![Other(s)] = @ \o out]]
        /\ last' = [event EXCEPT !.pid = s, !.res = h.res, !.sent = last.sent + Len(out)]
        /\ pre' = game
        /\ UNCHANGED server

\* The page acts: `local` tells whether it found the peers in sync.
Pressed(op, action) ==
    [last EXCEPT !.op = op, !.action = action, !.msg = "none",
                 !.local = IF InSync THEN "one" ELSE "other",
                 !.quiet = last.quiet /\ ~network.peers[1] /\ ~network.peers[2]]

LocalAction ==
    \E action \in LocalActions :
        /\ Ready
        /\ Ran(1, apply_action(This, action), 0, network.peers, Pressed("apply_action", action))
        /\ budget' = budget - 1

LocalNextPlayer ==
    /\ Ready
    /\ Ran(1, next_player(This), 0, network.peers, Pressed("next_player", Act("none", None)))
    /\ budget' = budget - 1

\* NetworkState::register_connection on side s.
RegisterConnection ==
    \E s \in Sides :
        /\ ~network.peers[s]
        /\ Ran(s, Handled(AppOf(s), "Ok", <<WireSnapshot(snapshot(AppOf(s))), WireRequestSnapshot>>),
               0, [network.peers EXCEPT ![s] = TRUE],
               [last EXCEPT !.op = "register_connection", !.action = Act("none", None), !.msg = "none"])
        /\ UNCHANGED budget

\* The reader of side s accepts one of the streams on their way and handles
\* its message.
Deliver ==
    \E s \in Sides :
        /\ network.peers[s]
        /\ \E i \in 1..Len(network.streams[s]) :
               LET message == network.streams[s][i]
               IN  Ran(s, handle_wire_message(AppOf(s), message), i, network.peers,
                       [last EXCEPT !.op = "handle_wire_message", !.action = Act("none", None), !.msg = message.type])
        /\ UNCHANGED budget

NextPeers ==
    \/ LocalAction
    \/ LocalNextPlayer
    \/ RegisterConnection
    \/ Deliver

SpecPeers == InitPeers /\ [][NextPeers]_vars

(***************************************************************************)
(* C39.  Two connected peers were in sync when the page of one of them     *)
(* acted (apply_action or next_player); once every message it sent for     *)
(* that has been handled by the other, in whatever order, the two peers    *)
(* hold the same game state and the same active player.                    *)
(***************************************************************************)
C39_PeersConvergeAfterALocalEvent ==
    last.local = "one" /\ Connected /\ Delivered =>
        /\ SameGameState(game, network.remote.game)
        /\ app.active_player = network.remote.active_player

(***************************************************************************)
(* C40.  Two peers registered their connection and the page of neither     *)
(* has acted since; once every message of the handshake has been handled   *)
(* (each side's Snapshot and RequestSnapshot and the Snapshot each request *)
(* is answered with, six in all) no message is on its way and the two      *)
(* peers hold the same game state.                                         *)
(***************************************************************************)
C40_HandshakeConverges ==
    last.quiet /\ Connected /\ Delivered =>
        /\ last.sent = 6
        /\ SameGameState(game, network.remote.game)

====
